---- MODULE Spec2Model ----
(***************************************************************************)
(* Model of the ingestion / reconciliation / derivation engine of the      *)
(* credit-risk dashboard (CR_Bank_DashvMSPB.py):                            *)
(*   - the field resolution layer of create_derived_metrics,               *)
(*   - the YTD -> quarterly conversion of create_derived_metrics,          *)
(*   - the FFIEC bulk healer (FFIECBulkLoader).                            *)
(* A pandas cell is an option value: NaN is the empty tuple, a present     *)
(* number n is the one-element tuple <<n>>.                                *)
(***************************************************************************)
EXTENDS Integers, Sequences, FiniteSets, TLC

VARIABLES
    phase,      \* which pipeline component the behaviour exercises
    r_map,      \* resolution: the fallback map in force (ordered <<field, sources>> pairs)
    r_row,      \* resolution: the raw row (column -> cell) handed to create_derived_metrics
    r_out,      \* resolution: the row after the field resolution layer
    r_pc,       \* resolution: "input" | "resolved"
    y_df,       \* YTD: the frame, a sequence of rows [cert, period, cum] sorted by (CERT, REPDTE)
    y_q,        \* YTD: the <col>_Q column, row position -> cell
    y_pc,       \* YTD: "input" | "converted"
    m_df,       \* merge: df_fdic indexed by (CERT, REPDTE): key -> (column -> cell)
    m_patch,    \* merge: the recovered rows, key -> dict of the fields parsed for it
    m_res,      \* merge: the frame after the healing merge
    m_pc,       \* merge: "input" | "merged"
    f_peers,    \* fetch: peer_certs, the queried institutions
    f_cache,    \* fetch: period -> the cache file FFIEC_Bulk_Call_<date>.csv
    f_pc,       \* fetch: "idle" | "get" | "post_date" | "post_dl" | "parse"
    f_period,   \* fetch: date_obj of the current (or last) fetch_quarter_data call
    f_attempt,  \* fetch: the loop variable of "for attempt in range(3)"
    f_session,  \* fetch: the requests.Session of the current attempt
    f_tok1,     \* fetch: fields_step1, the hidden tokens of the GET response
    f_tok2,     \* fetch: fields_step2, the hidden tokens of the date-selection response
    f_r3,       \* fetch: how the download response was recognised as an archive
    f_log,      \* fetch: the requests sent in the current attempt, in order
    f_nreq,     \* fetch: HTTP requests sent during the current call
    f_natt,     \* fetch: handshake attempts started during the current call
    f_notok,    \* fetch: attempts of the current call whose GET response had no hidden tokens
    f_parsed,   \* fetch: whether the current call reached the archive parser
    f_usable,   \* fetch: whether the period's cache file was usable when the call began
    f_result,   \* fetch: certs of the rows returned by the last call ({} = empty frame)
    f_calls,    \* fetch: calls of fetch_quarter_data begun so far
    f_saved,    \* fetch: attempts of the current call whose response went to debug_dir
    f_used,     \* fetch: every requests.Session created so far
    h_df,       \* heal: df_fdic, key <<cert, period>> -> (column -> cell)
    h_df0,      \* heal: df_fdic as it was handed to heal_dataset
    h_status,   \* heal: the FFIEC_RIC_STATUS column, key -> status (<<>> before it exists)
    h_pc,       \* heal: "start" | "loop" | "wait" | "done"
    h_dates,    \* heal: the dates the for loop has still to visit, most recent first
    h_frames,   \* heal: ffiec_frames, the frames recovered so far
    h_skipped,  \* heal: periods the need assessment skipped
    h_called,   \* heal: periods fetch_quarter_data was called for
    h_failed,   \* heal: periods whose fetch returned an empty frame
    t_df,       \* ttm: the frame handed to calculate_ttm_metrics, a sequence of rows
    t_out,      \* ttm: the frame it returns, a sequence of rows
    t_pc,       \* ttm: "idle" | "input" | "done"
    d_form,     \* divide: "scalar" | "series"
    d_num,      \* divide: the numerator (a cell, or a sequence of cells)
    d_den,      \* divide: the denominator (a cell, or a sequence of cells)
    d_fill,     \* divide: fill_value
    d_out,      \* divide: what _safe_divide returned
    d_pc,       \* divide: "idle" | "input" | "done"
    b_pc,       \* batch: "idle" | "loop" | "lnci" | "heal" | "finish" | "returned" |
                \*        "loc_inst" | "loc_branch" | "ran"
    b_todo,     \* batch: the certs the for loop of fetch_all_banks has still to visit
    b_tried,    \* batch: the certs a request was sent for, in order
    b_data,     \* batch: all_bank_data, a sequence of frames [cert, periods]
    b_failed,   \* batch: failed_certs
    b_df,       \* batch: combined_df, key <<cert, period>> -> (column -> cell)
    b_lnci,     \* batch: lnci_df, key <<cert, date>> -> the LNCI cell
    b_status,   \* batch: the FFIEC_RIC_STATUS column (<<>> when there is none)
    b_healer,   \* batch: "none" | "returned" | "exception"
    b_run,      \* batch: how run went on: "none", "derive", or the type of the
                \*        exception that left run: the ValueError of the empty frame, or the
                \*        exception that left get_bank_locations (a ValueError among them)
    b_loc,      \* batch: the certs the loop of get_bank_locations has still to visit
    b_hq,       \* batch: hq_state of the cert get_bank_locations is at ("None": null)
    b_locs,     \* batch: institution_data, a sequence of rows [cert, HQ_STATE]
    p_df0,      \* peers: the table handed to _create_peer_composite, a sequence of rows
    p_df,       \* peers: the table with the composite rows appended
    p_cmp,      \* peers: the records create_peer_comparison returned (<<>> = empty frame)
    p_pc,       \* peers: "idle" | "input" | "composited" | "compared"
    g_metric,   \* flag: the metric code, a sequence of characters
    g_subject,  \* flag: subject_value, a cell
    g_core,     \* flag: the metric cells of the Core group's rows at the latest date
    g_pct,      \* flag: primary_percentile (None when it was not computed)
    g_flag,     \* flag: record["Performance_Flag"]
    g_pc,       \* flag: "idle" | "input" | "done"
    s_ids,      \* pool: series_ids, the list handed to fetch_all_series_async
    s_task,     \* pool: task -> "pending" | "waiting" | "woken" | "request" | "delay" | "done"
    s_sem,      \* pool: the value of self.semaphore
    s_waiters,  \* pool: the waiter queue of self.semaphore, task ids in arrival order
    s_res,      \* pool: task -> the second component of the tuple it returns
    s_cols,     \* pool: the columns of merged_df, in order
    s_failed,   \* pool: failed_series
    s_pc,       \* pool: "off" | "running" | "returned"
    v_map,      \* runs: the fallback map in force
    v_df,       \* runs: run -> the raw table handed to it, a sequence of rows (column -> cell)
    v_out,      \* runs: run -> the table its field resolution layer produced (<<>> before)
    k_tab,      \* keys: the table as the pipeline hands it on, a sequence of rows
    k_pc        \* keys: "off" | "start" | "fetched" | "joined" | "healed" | "returned" |
                \*       "located" | "raised" | "resolved" | "ttm" | "composited" | "empty"

rvars == <<r_map, r_row, r_out, r_pc>>
yvars == <<y_df, y_q, y_pc>>
mvars == <<m_df, m_patch, m_res, m_pc>>
fvars == <<f_peers, f_cache, f_pc, f_period, f_attempt, f_session, f_tok1, f_tok2,
           f_r3, f_log, f_nreq, f_natt, f_notok, f_parsed, f_usable, f_result, f_calls,
           f_saved, f_used>>
hvars == <<h_df, h_df0, h_status, h_pc, h_dates, h_frames, h_skipped, h_called, h_failed>>
tvars == <<t_df, t_out, t_pc>>
dvars == <<d_form, d_num, d_den, d_fill, d_out, d_pc>>
bvars == <<b_pc, b_todo, b_tried, b_data, b_failed, b_df, b_lnci, b_status, b_healer, b_run,
           b_loc, b_hq, b_locs>>
pvars == <<p_df0, p_df, p_cmp, p_pc>>
gvars == <<g_metric, g_subject, g_core, g_pct, g_flag, g_pc>>
svars == <<s_ids, s_task, s_sem, s_waiters, s_res, s_cols, s_failed, s_pc>>
vvars == <<v_map, v_df, v_out>>
kvars == <<k_tab, k_pc>>
xvars == <<svars, vvars, kvars>>
lvars == <<gvars, xvars>>
avars == <<tvars, dvars, bvars, pvars, lvars>>
vars == <<phase, rvars, yvars, mvars, fvars, hvars, avars>>

\* a component the behaviour does not exercise stays in its idle state
ResolveIdle ==
    /\ r_map = <<>>
    /\ r_row = <<>>
    /\ r_out = <<>>
    /\ r_pc = "idle"

YtdIdle ==
    /\ y_df = <<>>
    /\ y_q = <<>>
    /\ y_pc = "idle"

MergeIdle ==
    /\ m_df = <<>>
    /\ m_patch = <<>>
    /\ m_res = <<>>
    /\ m_pc = "idle"

\* r3 before a download POST was answered with status 200
NoResponse == [magic |-> FALSE, ctype |-> "none"]

FetchIdle ==
    /\ f_peers = {}
    /\ f_cache = <<>>
    /\ f_pc = "off"
    /\ f_period = 0
    /\ f_attempt = 0
    /\ f_session = <<>>
    /\ f_tok1 = <<>>
    /\ f_tok2 = <<>>
    /\ f_r3 = NoResponse
    /\ f_log = <<>>
    /\ f_nreq = 0
    /\ f_natt = 0
    /\ f_notok = 0
    /\ f_parsed = FALSE
    /\ f_usable = FALSE
    /\ f_result = {}
    /\ f_calls = 0
    /\ f_saved = {}
    /\ f_used = {}

HealIdle ==
    /\ h_df = <<>>
    /\ h_df0 = <<>>
    /\ h_status = <<>>
    /\ h_pc = "off"
    /\ h_dates = <<>>
    /\ h_frames = <<>>
    /\ h_skipped = {}
    /\ h_called = {}
    /\ h_failed = {}

TtmIdle ==
    /\ t_df = <<>>
    /\ t_out = <<>>
    /\ t_pc = "idle"

DivideIdle ==
    /\ d_form = "none"
    /\ d_num = <<>>
    /\ d_den = <<>>
    /\ d_fill = <<>>
    /\ d_out = <<>>
    /\ d_pc = "idle"

BatchIdle ==
    /\ b_pc = "idle"
    /\ b_todo = <<>>
    /\ b_tried = <<>>
    /\ b_data = <<>>
    /\ b_failed = <<>>
    /\ b_df = <<>>
    /\ b_lnci = <<>>
    /\ b_status = <<>>
    /\ b_healer = "none"
    /\ b_run = "none"
    /\ b_loc = <<>>
    /\ b_hq = "N/A"
    /\ b_locs = <<>>

PeersIdle ==
    /\ p_df0 = <<>>
    /\ p_df = <<>>
    /\ p_cmp = <<>>
    /\ p_pc = "idle"

FlagIdle ==
    /\ g_metric = <<>>
    /\ g_subject = <<>>
    /\ g_core = <<>>
    /\ g_pct = <<>>
    /\ g_flag = "none"
    /\ g_pc = "idle"

PoolIdle ==
    /\ s_ids = <<>>
    /\ s_task = <<>>
    /\ s_sem = 0
    /\ s_waiters = <<>>
    /\ s_res = <<>>
    /\ s_cols = <<>>
    /\ s_failed = <<>>
    /\ s_pc = "off"

RunsIdle ==
    /\ v_map = <<>>
    /\ v_df = <<>>
    /\ v_out = <<>>

KeysIdle ==
    /\ k_tab = <<>>
    /\ k_pc = "off"

IngestIdle == ResolveIdle /\ YtdIdle /\ MergeIdle /\ FetchIdle /\ HealIdle

\* every analytics component but the named one is idle
AnalyticsIdleExcept(name) ==
    /\ (name # "ttm") => TtmIdle
    /\ (name # "divide") => DivideIdle
    /\ (name # "batch") => BatchIdle
    /\ (name # "peers") => PeersIdle
    /\ (name # "flag") => FlagIdle
    /\ (name # "pool") => PoolIdle
    /\ (name # "runs") => RunsIdle
    /\ (name # "keys") => KeysIdle

(***************************************************************************)
(* Cells                                                                   *)
(***************************************************************************)
NaN == <<>>
Some(n) == <<n>>
notna(v) == v # NaN
isna(v) == v = NaN
Num(v) == v[1]
\* (v == 0) / (v != 0) of pandas and Python: a NaN is never equal to 0
IsZero(v) == notna(v) /\ Num(v) = 0
NonZero(v) == notna(v) /\ Num(v) # 0

Range(s) == {s[i] : i \in DOMAIN s}

(***************************************************************************)
(* Field resolution layer                                                  *)
(***************************************************************************)
FDIC_FALLBACK_MAP ==
    << <<"LNOTHPCS",    <<"RCFD1545", "RCON1545", "LNOTHER">> >>,
       <<"LNOTHNONDEP", <<"RCFDJ454", "RCONJ454">> >>,
       <<"RCFDJ466",    <<"FFIEC">> >>,
       <<"RCFDJ467",    <<"FFIEC">> >>,
       <<"RCFDJ468",    <<"FFIEC">> >>,
       <<"RCFDJ469",    <<"FFIEC">> >>,
       <<"RCFDJ470",    <<"FFIEC">> >>,
       <<"RCFDJ471",    <<"FFIEC">> >>,
       <<"RCFDJ472",    <<"FFIEC">> >>,
       <<"RCFDJ474",    <<"FFIEC">> >>,
       <<"LNCONAUTO",   <<"LNAUTO">> >>,
       <<"LNCONCC",     <<"LNCRCD">> >>,
       <<"LNCONOTHX",   <<"DERIVED">> >>,
       <<"LNREOTH",     <<"LNRENROT">> >>,
       <<"NALRERES",    <<"NARERES">> >>,
       <<"P9RENRES",    <<"P9RENROT">> >> >>

\* row.get(s): None when the row has no such column; pd.notna(None) is False
RowGet(row, s) == IF s \in DOMAIN row THEN row[s] ELSE NaN
\* row.get(s, 0)
RowGet0(row, s) == IF s \in DOMAIN row THEN row[s] ELSE Some(0)

\* a - b on cells: NaN when either operand is NaN
CellSub(a, b) == IF isna(a) \/ isna(b) THEN NaN ELSE Some(Num(a) - Num(b))

\* max(0, x) of Python: x only when x > 0 (a NaN compares False)
Max0(x) == IF notna(x) /\ Num(x) > 0 THEN x ELSE Some(0)

\* LNCON - LNAUTO - LNCRCD, floored at zero
DerivedLNCONOTHX(row) ==
    Max0(CellSub(CellSub(RowGet0(row, "LNCON"), RowGet0(row, "LNAUTO")),
                 RowGet0(row, "LNCRCD")))

RECURSIVE FirstNonZero(_, _, _)
\* for s in src: val = row.get(s); if pd.notna(val) and val != 0: return val
FirstNonZero(row, src, i) ==
    IF i > Len(src) THEN Some(0)
    ELSE IF NonZero(RowGet(row, src[i])) THEN RowGet(row, src[i])
    ELSE FirstNonZero(row, src, i + 1)

RECURSIVE LastNonZero(_, _, _)
LastNonZero(row, src, i) ==
    IF i < 1 THEN Some(0)
    ELSE IF NonZero(RowGet(row, src[i])) THEN RowGet(row, src[i])
    ELSE LastNonZero(row, src, i - 1)

\* a resolve that scans the candidates from the back
resolve_LastWins(row, src, fld) ==
    IF "DERIVED" \in Range(src)
    THEN IF fld = "LNCONOTHX" THEN DerivedLNCONOTHX(row) ELSE Some(0)
    ELSE LastNonZero(row, src, Len(src))

resolve(row, src, fld) ==
    IF "DERIVED" \in Range(src)
    THEN IF fld = "LNCONOTHX" THEN DerivedLNCONOTHX(row) ELSE Some(0)
    ELSE FirstNonZero(row, src, 1)

\* df_processed[field] = ...: the column is created or overwritten
SetCol(row, c, v) == [x \in DOMAIN row \cup {c} |-> IF x = c THEN v ELSE row[x]]

RECURSIVE ResolutionLayer(_, _, _)
\* for field, sources in FDIC_FALLBACK_MAP.items(): ... df_processed[field] = apply(resolve)
ResolutionLayer(row, fmap, i) ==
    IF i > Len(fmap) THEN row
    ELSE LET field == fmap[i][1]
             sources == fmap[i][2]
         IN IF "FFIEC" \in Range(sources)
            THEN ResolutionLayer(row, fmap, i + 1)
            ELSE ResolutionLayer(SetCol(row, field, resolve(row, sources, field)), fmap, i + 1)

(***************************************************************************)
(* Resolution inputs: one fallback map and one raw row.  The rows vary     *)
(* over the columns one metric of the map reads.                           *)
(***************************************************************************)
ResolveVariants == 1

\* the candidate table of the resolution test: raw candidates, then the sentinel
TEST_FALLBACK_MAP == << <<"LNCONOTHX", <<"Y", "X", "DERIVED">> >> >>

ResolveMaps == {FDIC_FALLBACK_MAP, TEST_FALLBACK_MAP}

DerivedInputs == {"LNCON", "LNAUTO", "LNCRCD"}

\* the columns the resolve of entry i reads
InputCols(fmap, i) ==
    IF "DERIVED" \in Range(fmap[i][2])
    THEN (Range(fmap[i][2]) \ {"DERIVED"}) \cup DerivedInputs
    ELSE Range(fmap[i][2]) \ {"FFIEC"}

ColBase(c) ==
    CASE c = "LNCON" -> 300
      [] c \in {"LNAUTO", "LNCRCD"} -> 50
      [] c \in {"RCON1545", "RCONJ454", "Y"} -> 200
      [] c = "LNOTHER" -> 400
      [] OTHER -> 100

ColCells(c) == {NaN, Some(0)} \cup {Some(ColBase(c) + 10 * k) : k \in 0..(ResolveVariants - 1)}

RowsOver(cols) ==
    UNION { {row \in [present -> UNION {ColCells(c) : c \in present}] :
                \A c \in present : row[c] \in ColCells(c)} : present \in SUBSET cols }

ResolveInit ==
    /\ phase = "resolve"
    /\ AnalyticsIdleExcept("none")
    /\ r_map \in ResolveMaps
    /\ \E i \in 1..Len(r_map) : r_row \in RowsOver(InputCols(r_map, i))
    /\ r_out = <<>>
    /\ r_pc = "input"
    /\ YtdIdle
    /\ MergeIdle
    /\ FetchIdle
    /\ HealIdle

\* create_derived_metrics, step [A]: the whole loop over the fallback map
ApplyResolution ==
    /\ phase = "resolve"
    /\ r_pc = "input"
    /\ r_out' = ResolutionLayer(r_row, r_map, 1)
    /\ r_pc' = "resolved"
    /\ UNCHANGED <<phase, r_map, r_row, yvars, mvars, fvars, hvars, avars>>

ResolveNext == ApplyResolution

SpecResolve == ResolveInit /\ [][ResolveNext]_vars

(***************************************************************************)
(* Claims about the field resolution layer                                 *)
(***************************************************************************)
\* the value a candidate stands for: a raw field's cell, or the derived function
CandValue(row, fld, c) ==
    IF c = "DERIVED"
    THEN IF fld = "LNCONOTHX" THEN DerivedLNCONOTHX(row) ELSE Some(0)
    ELSE RowGet(row, c)

\* first present-and-nonzero candidate in list order, else zero
FirstWins(row, fld, src) ==
    LET hits == {j \in 1..Len(src) : NonZero(CandValue(row, fld, src[j]))}
    IN IF hits = {} THEN Some(0)
       ELSE CandValue(row, fld, src[CHOOSE j \in hits : \A k \in hits : j <= k])

\* C2: with the shipped fallback map, every resolved metric of every row is the
\* first present-and-nonzero candidate of its list, in list order, and is zero
\* (never null) when every candidate is absent or zero.
C2_FirstPresentNonZero ==
    (r_pc = "resolved" /\ r_map = FDIC_FALLBACK_MAP) =>
        \A i \in 1..Len(FDIC_FALLBACK_MAP) :
            LET fld == FDIC_FALLBACK_MAP[i][1]
                src == FDIC_FALLBACK_MAP[i][2]
            IN "FFIEC" \notin Range(src) =>
                /\ fld \in DOMAIN r_out
                /\ notna(r_out[fld])
                /\ r_out[fld] = FirstWins(r_row, fld, src)

\* the first candidate is zero, the second and third are both non-zero: the second wins
C2_Witness ==
    /\ r_pc = "resolved" /\ r_map = FDIC_FALLBACK_MAP
    /\ DOMAIN r_row = {"RCFD1545", "RCON1545", "LNOTHER"}
    /\ r_row["RCFD1545"] = Some(0)
    /\ r_row["RCON1545"] = Some(200)
    /\ r_row["LNOTHER"] = Some(400)
    /\ r_out["LNOTHPCS"] = Some(200)

\* C3: with candidates [Y, X, DERIVED] the raw candidates take precedence and the
\* derived function is used only when every raw candidate is absent or zero.
C3_RawBeforeDerived ==
    (r_pc = "resolved" /\ r_map = TEST_FALLBACK_MAP) =>
        r_out["LNCONOTHX"] = FirstWins(r_row, "LNCONOTHX", TEST_FALLBACK_MAP[1][2])


(***************************************************************************)
(* YTD -> quarterly conversion (create_derived_metrics, step [B])          *)
(* A reporting period p is a quarter index: quarter ((p-1) % 4) + 1 of     *)
(* year (p-1) \div 4.                                                      *)
(***************************************************************************)
YtdCerts == 2
YtdPeriods == 5
YtdMaxRows == 4

\* REPDTE.dt.quarter
Quarter(p) == ((p - 1) % 4) + 1

RECURSIVE SortByPeriod(_, _)
\* group.sort_values('REPDTE'): the row positions of idxs, ascending by period
SortByPeriod(df, idxs) ==
    IF idxs = {} THEN <<>>
    ELSE LET m == CHOOSE i \in idxs : \A j \in idxs :
                      \/ df[i].period < df[j].period
                      \/ (df[i].period = df[j].period /\ i <= j)
         IN <<m>> \o SortByPeriod(df, idxs \ {m})

\* a conversion that differences without the Q1 override
QuarterlyVal_NoQ1(df, order, k) ==
    IF k = 1 THEN NaN ELSE CellSub(df[order[k]].cum, df[order[k - 1]].cum)

\* group[col].diff(), then quarterly_vals.loc[q1_mask] = group.loc[q1_mask, col];
\* order is the sorted group, k a position in it
QuarterlyVal(df, order, k) ==
    IF Quarter(df[order[k]].period) = 1 THEN df[order[k]].cum
    ELSE IF k = 1 THEN NaN
    ELSE CellSub(df[order[k]].cum, df[order[k - 1]].cum)

\* the sorted group a row belongs to, when the frame is grouped by CERT
GroupOf(df, i) == SortByPeriod(df, {j \in 1..Len(df) : df[j].cert = df[i].cert})

\* position of row i in a group order
PosIn(order, i) == CHOOSE k \in 1..Len(order) : order[k] = i

\* a conversion that differences the whole frame without grouping by CERT
YtdToQuarterly_NoGroup(df) ==
    [i \in 1..Len(df) |-> QuarterlyVal(df, [k \in 1..Len(df) |-> k], i)]

\* for cert, group in groupby('CERT'): ... df_processed.loc[group.index, col_Q] = quarterly_vals
YtdToQuarterly(df) ==
    [i \in 1..Len(df) |-> QuarterlyVal(df, GroupOf(df, i), PosIn(GroupOf(df, i), i))]

YtdKeys == (1..YtdCerts) \X (1..YtdPeriods)

\* the cumulative value filed by a cert for a period, when it is present
YtdCum(c, p) == (100 * c) + (10 * p * p)

RECURSIVE SortedKeys(_)
\* fetch_all_banks returns combined_df.sort_values(['CERT', 'REPDTE'])
SortedKeys(ks) ==
    IF ks = {} THEN <<>>
    ELSE LET m == CHOOSE a \in ks : \A b \in ks :
                      a[1] < b[1] \/ (a[1] = b[1] /\ a[2] <= b[2])
         IN <<m>> \o SortedKeys(ks \ {m})

YtdFrame(ks, nans) ==
    LET o == SortedKeys(ks)
    IN [i \in 1..Len(o) |->
          [cert |-> o[i][1], period |-> o[i][2],
           cum |-> IF o[i] \in nans THEN NaN ELSE Some(YtdCum(o[i][1], o[i][2]))]]

YtdInit ==
    /\ phase = "ytd"
    /\ AnalyticsIdleExcept("none")
    /\ ResolveIdle
    /\ MergeIdle
    /\ FetchIdle
    /\ HealIdle
    /\ \E ks \in (SUBSET YtdKeys) \ {{}} :
          /\ Cardinality(ks) <= YtdMaxRows
          /\ \E nans \in SUBSET ks : y_df = YtdFrame(ks, nans)
    /\ y_q = <<>>
    /\ y_pc = "input"

ConvertYtd ==
    /\ phase = "ytd"
    /\ y_pc = "input"
    /\ y_q' = YtdToQuarterly(y_df)
    /\ y_pc' = "converted"
    /\ UNCHANGED <<phase, rvars, y_df, mvars, fvars, hvars, avars>>

YtdNext == ConvertYtd

SpecYtd == YtdInit /\ [][YtdNext]_vars

(***************************************************************************)
(* Claims about the YTD -> quarterly conversion                            *)
(***************************************************************************)
\* rows of the same institution filed before row i
EarlierOwn(df, i) == {j \in 1..Len(df) : df[j].cert = df[i].cert /\ df[j].period < df[i].period}

\* the same institution's immediately preceding row
PrevOwn(df, i) == CHOOSE j \in EarlierOwn(df, i) : \A k \in EarlierOwn(df, i) : df[k].period <= df[j].period

\* C10: per institution, rows ascending by period: the quarterly value at a fiscal
\* Q1 period is the cumulative value itself; at any other period it is the
\* cumulative value minus that of the same institution's immediately preceding
\* row (null when the institution has no earlier row); never a difference against
\* a row of another institution.
C10_YtdQuarterly ==
    y_pc = "converted" =>
        \A i \in 1..Len(y_df) :
            y_q[i] = IF Quarter(y_df[i].period) = 1 THEN y_df[i].cum
                     ELSE IF EarlierOwn(y_df, i) = {} THEN NaN
                     ELSE CellSub(y_df[i].cum, y_df[PrevOwn(y_df, i)].cum)

\* institution 2's first row is not a Q1 filing and follows a row of institution 1
\* in the frame: it is null; institution 1's Q2 row is differenced against its Q1
C10_Witness ==
    /\ y_pc = "converted"
    /\ Len(y_df) = 3
    /\ y_df[1].cert = 1 /\ y_df[1].period = 1 /\ notna(y_df[1].cum)
    /\ y_df[2].cert = 1 /\ y_df[2].period = 2 /\ notna(y_df[2].cum)
    /\ y_df[3].cert = 2 /\ y_df[3].period = 2 /\ notna(y_df[3].cum)
    /\ y_q[1] = y_df[1].cum
    /\ y_q[2] = Some(Num(y_df[2].cum) - Num(y_df[1].cum))
    /\ y_q[3] = NaN

\* the fiscal year of a period (periods count quarters from a first Q1)
YearOf(p) == (p - 1) \div 4

\* the row of institution c at quarter q of year y
RowAt(df, c, y, q) ==
    CHOOSE i \in 1..Len(df) : df[i].cert = c /\ df[i].period = (4 * y) + q

\* institution c filed the cumulative field in all four quarters of year y
FullYear(df, c, y) ==
    \A q \in 1..4 : \E i \in 1..Len(df) :
        df[i].cert = c /\ df[i].period = (4 * y) + q /\ notna(df[i].cum)

\* C11: for every institution and every fiscal year in which the institution
\* filed the cumulative field in all four quarters, the four quarterly-converted
\* values of that year are present and their sum equals the Q4 cumulative value.
C11_YtdRoundTrip ==
    y_pc = "converted" =>
        \A c \in 1..YtdCerts : \A y \in 0..YearOf(YtdPeriods) :
            FullYear(y_df, c, y) =>
                /\ \A q \in 1..4 : notna(y_q[RowAt(y_df, c, y, q)])
                /\ Num(y_q[RowAt(y_df, c, y, 1)]) + Num(y_q[RowAt(y_df, c, y, 2)])
                     + Num(y_q[RowAt(y_df, c, y, 3)]) + Num(y_q[RowAt(y_df, c, y, 4)])
                   = Num(y_df[RowAt(y_df, c, y, 4)].cum)

\* institution 1 filed all four quarters of the first year; its Q2..Q4 values
\* are differences, not the cumulative values
C11_Witness ==
    /\ y_pc = "converted"
    /\ FullYear(y_df, 1, 0)
    /\ \A q \in 2..4 : y_q[RowAt(y_df, 1, 0, q)] # y_df[RowAt(y_df, 1, 0, q)].cum
    /\ y_q[RowAt(y_df, 1, 0, 4)] = Some(YtdCum(1, 4) - YtdCum(1, 3))


(***************************************************************************)
(* FFIEC bulk healer: the healing merge of heal_dataset                    *)
(* A frame indexed by (CERT, REPDTE) is a function from keys <<cert,       *)
(* period>> to rows; the rows of one frame have the same columns.  The     *)
(* recovered rows are the dicts of cert_data_map: a field the archive did  *)
(* not give for a cert is missing from its dict and NaN in df_patch.       *)
(***************************************************************************)
target_fields ==
    {"RCFD1545", "RCON1545", "RCFDJ454", "RCONJ454",
     "RCFDJ466", "RCONJ466", "RCFDJ467", "RCONJ467",
     "RCFDJ468", "RCONJ468", "RCFDJ469", "RCONJ469",
     "RCFDJ470", "RCONJ470", "RCFDJ471", "RCONJ471",
     "RCFDJ472", "RCONJ472", "RCFDJ474", "RCONJ474"}

\* df.columns of a non-empty frame
Cols(df) == UNION {DOMAIN df[k] : k \in DOMAIN df}

\* df_p[col] aligned on a key of df_main: NaN where df_patch has no such row or value
PatchGet(patch, k, col) ==
    IF k \in DOMAIN patch /\ col \in DOMAIN patch[k] THEN patch[k][col] ELSE NaN

\* a merge in which a present recovered value always overwrites
MergeCell_Overwrite(existing, rec) == IF notna(rec) THEN rec ELSE existing

\* df_main[col].fillna(df_p[col]), then the mask_fix overwrite of zeros:
\* (df_main[col] == 0) & df_p[col].notna() & (df_p[col] != 0)
MergeCell(existing, rec) ==
    LET filled == IF isna(existing) THEN rec ELSE existing
    IN IF IsZero(filled) /\ NonZero(rec) THEN rec ELSE filled

\* for col in self.target_fields: if col in df_p.columns: ...
HealMerge(df, patch) ==
    LET pcols == target_fields \cap Cols(patch)
    IN [k \in DOMAIN df |->
          [c \in Cols(df) \cup pcols |->
              IF c \notin pcols THEN df[k][c]
              ELSE IF c \notin Cols(df) THEN PatchGet(patch, k, c)
              ELSE MergeCell(df[k][c], PatchGet(patch, k, c))]]

(***************************************************************************)
(* Merge inputs: a raw table and recovered rows over one period            *)
(***************************************************************************)
MergeCerts == 2

MergeKeys == {<<c, 1>> : c \in 1..MergeCerts}

ExistingCells == {NaN, Some(0), Some(500)}
RecoveredCells == {NaN, Some(0), Some(300), Some(500)}

\* raw rows: a column outside the target list, and RCFD1545 when the API gave it
MainFrames ==
    UNION { [ks -> {[ASSET |-> Some(7)]}] \cup
            [ks -> {[ASSET |-> Some(7), RCFD1545 |-> v] : v \in ExistingCells}]
            : ks \in (SUBSET MergeKeys) \ {{}} }

\* recovered dicts: RCFD1545 parsed for the cert, or not in its record
PatchFrames ==
    UNION { [ks -> {<<>>} \cup {[RCFD1545 |-> v] : v \in RecoveredCells}]
            : ks \in (SUBSET MergeKeys) \ {{}} }

MergeInit ==
    /\ phase = "merge"
    /\ AnalyticsIdleExcept("none")
    /\ ResolveIdle
    /\ YtdIdle
    /\ FetchIdle
    /\ HealIdle
    /\ m_df \in {df \in MainFrames : \A j, k \in DOMAIN df : DOMAIN df[j] = DOMAIN df[k]}
    /\ m_patch \in PatchFrames
    /\ m_res = <<>>
    /\ m_pc = "input"

\* heal_dataset from "Merging FFIEC Granular Data..." to the return
ApplyMerge ==
    /\ phase = "merge"
    /\ m_pc = "input"
    /\ m_res' = HealMerge(m_df, m_patch)
    /\ m_pc' = "merged"
    /\ UNCHANGED <<phase, rvars, yvars, m_df, m_patch, fvars, hvars, avars>>

MergeNext == ApplyMerge

SpecMerge == MergeInit /\ [][MergeNext]_vars

(***************************************************************************)
(* Claims about the healing merge                                          *)
(***************************************************************************)
\* a cell of a frame, absent (NaN) when the frame has no such column
CellOf(df, k, c) == IF c \in DOMAIN df[k] THEN df[k][c] ELSE NaN

\* C1: for every (institution, period, target field) cell and its recovered value:
\* the result is the recovered value if the existing value is absent, or if the
\* existing value is exactly zero and the recovered value is present and non-zero;
\* in every other case the existing value is kept.
C1_HealingMerge ==
    m_pc = "merged" =>
        \A k \in DOMAIN m_df : \A c \in target_fields :
            LET existing == CellOf(m_df, k, c)
                rec == PatchGet(m_patch, k, c)
            IN CellOf(m_res, k, c) =
                  IF isna(existing) THEN rec
                  ELSE IF IsZero(existing) /\ NonZero(rec) THEN rec
                  ELSE existing

\* existing 0 healed to the recovered 300 while an existing 500 survives a recovered 300
C1_Witness ==
    /\ m_pc = "merged"
    /\ {<<1, 1>>, <<2, 1>>} \subseteq DOMAIN m_df
    /\ {<<1, 1>>, <<2, 1>>} \subseteq DOMAIN m_patch
    /\ m_df[<<1, 1>>] = [ASSET |-> Some(7), RCFD1545 |-> Some(0)]
    /\ m_df[<<2, 1>>] = [ASSET |-> Some(7), RCFD1545 |-> Some(500)]
    /\ m_patch[<<1, 1>>] = [RCFD1545 |-> Some(300)]
    /\ m_patch[<<2, 1>>] = [RCFD1545 |-> Some(300)]
    /\ m_res[<<1, 1>>]["RCFD1545"] = Some(300)
    /\ m_res[<<2, 1>>]["RCFD1545"] = Some(500)


(***************************************************************************)
(* FFIEC bulk healer: fetch_quarter_data and the WebForms handshake        *)
(* Each HTTP request is one step; its response is chosen by the server.    *)
(* A cache file is [kind, certs]: kind "none" (no file), "unusable" (the   *)
(* read fails or the file has no CERT column) or "rows" (the rows of the   *)
(* certs it holds).                                                        *)
(***************************************************************************)
MAX_ATTEMPTS == 3

\* the institutions that can appear in an archive or a cache file
AllCerts == {1, 2}

NoTok == <<>>

NoFile == [kind |-> "none", certs |-> {}]
UnusableFile == [kind |-> "unusable", certs |-> {}]
RowsFile(certs) == [kind |-> "rows", certs |-> certs]

\* a cache that is never trusted
CacheUsable_Never(file) == FALSE

\* cache_file.exists(), read_csv succeeds and 'CERT' in df_cache.columns
CacheUsable(file) == file.kind = "rows"

\* df_cache[df_cache['CERT'].isin(peer_certs)]
FilterPeers(certs, peers) == certs \cap peers

\* one session kept for all the attempts of a call
NewSession_PerCall(call, attempt) == <<call, 0>>

\* session = requests.Session(): a fresh cookie jar for every attempt of every call
NewSession(call, attempt) == <<call, attempt>>

\* _extract_all_hidden_fields of the response to a request of this session
HiddenFields(session, step) == <<session, step>>

\* a download POST that replays the tokens of the initial GET
Step3Payload_Stale(tok1, tok2) == tok1

\* payload_step3 = fields_step2.copy()
Step3Payload(tok1, tok2) == tok2

\* payload_step2 = fields_step1.copy()
Step2Payload(tok1) == tok1

ContentTypes == {"application/zip", "application/octet-stream", "text/html"}

\* status-200 responses to the download POST
DownloadBodies == [magic : BOOLEAN, ctype : ContentTypes]

\* a detection that looks at the magic bytes only
IsZip_MagicOnly(r3) == r3.magic

\* r3.content.startswith(b'PK') or 'zip' in Content-Type or 'octet-stream' in Content-Type
IsZip(r3) == r3.magic \/ r3.ctype \in {"application/zip", "application/octet-stream"}

\* self._save_debug_html(r3.content, ...): the body is written to a file of debug_dir
\* named by the date and the time of day to the second, or, when opening or writing
\* the file raises, the exception is swallowed and nothing is written ("Save
\* failed"). The loop of fetch_quarter_data sleeps two seconds after every failed
\* attempt, so the files of the attempts of one call have different names.
save_debug_html(saved, attempt, written) == IF written THEN saved \cup {attempt} ELSE saved

\* a retry loop that allows one attempt too many
MoreAttempts_OneExtra(attempt) == attempt + 1 < MAX_ATTEMPTS + 1

\* for attempt in range(3): another iteration follows this one
MoreAttempts(attempt) == attempt + 1 < MAX_ATTEMPTS

LogEntry(req, sent, status, got) ==
    [req |-> req, session |-> f_session, sent |-> sent, status |-> status, got |-> got]

\* the call returns df (the certs of its rows); the cache is cache2
Return(rows, cache2) ==
    /\ f_result' = rows
    /\ f_cache' = cache2
    /\ f_pc' = "idle"

\* _download_with_webforms returned None: sleep, then retry from the GET with a
\* new session, or give the period up with an empty frame
AttemptFailed ==
    IF MoreAttempts(f_attempt)
    THEN /\ f_attempt' = f_attempt + 1
         /\ f_natt' = f_natt + 1
         /\ f_session' = NewSession(f_calls, f_attempt + 1)
         /\ f_used' = f_used \cup {NewSession(f_calls, f_attempt + 1)}
         /\ f_pc' = "get"
         /\ UNCHANGED <<f_result, f_cache>>
    ELSE /\ Return({}, f_cache)
         /\ UNCHANGED <<f_attempt, f_natt, f_session, f_used>>

\* fetch_quarter_data entered for period p: the per-call bookkeeping
EnterFetch(p) ==
    /\ f_period' = p
    /\ f_calls' = f_calls + 1
    /\ f_usable' = (f_cache[p].kind = "rows")
    /\ f_nreq' = 0
    /\ f_notok' = 0
    /\ f_parsed' = FALSE
    /\ f_log' = <<>>
    /\ f_tok1' = NoTok
    /\ f_tok2' = NoTok
    /\ f_r3' = NoResponse
    /\ f_attempt' = 0
    /\ f_saved' = {}

\* fetch_quarter_data, cache hit: the filtered cache is returned, nothing is sent
BeginFetchHit(p) ==
    /\ f_pc = "idle"
    /\ CacheUsable(f_cache[p])
    /\ EnterFetch(p)
    /\ f_natt' = 0
    /\ f_session' = <<>>
    /\ Return(FilterPeers(f_cache[p].certs, f_peers), f_cache)
    /\ UNCHANGED <<f_peers, f_used>>

\* fetch_quarter_data, no usable cache: the first handshake attempt starts
BeginFetchMiss(p) ==
    /\ f_pc = "idle"
    /\ ~CacheUsable(f_cache[p])
    /\ EnterFetch(p)
    /\ f_natt' = 1
    /\ f_session' = NewSession(f_calls + 1, 0)
    /\ f_used' = f_used \cup {NewSession(f_calls + 1, 0)}
    /\ f_pc' = "get"
    /\ f_result' = {}
    /\ UNCHANGED <<f_peers, f_cache>>

HandshakeOutcomes == {"exception", "bad_status", "no_tokens", "ok"}

\* STEP 1: r1 = session.get(base_url); fields_step1 = hidden fields of r1
FetchGet ==
    /\ f_pc = "get"
    /\ \E o \in HandshakeOutcomes :
         LET got == IF o = "ok" THEN HiddenFields(f_session, "A") ELSE NoTok
         IN /\ f_log' = <<LogEntry("GET", NoTok, o, got)>>
            /\ f_nreq' = f_nreq + 1
            /\ f_tok2' = NoTok
            /\ f_notok' = IF o = "no_tokens" THEN f_notok + 1 ELSE f_notok
            /\ IF o = "ok"
               THEN /\ f_tok1' = got
                    /\ f_pc' = "post_date"
                    /\ UNCHANGED <<f_attempt, f_natt, f_session, f_used, f_result, f_cache>>
               ELSE /\ f_tok1' = NoTok
                    /\ AttemptFailed
    /\ UNCHANGED <<f_peers, f_period, f_r3, f_parsed, f_usable, f_calls, f_saved>>

\* STEP 2: r2 = session.post(base_url, payload_step2); fields_step2 = hidden fields of r2
FetchPostDate ==
    /\ f_pc = "post_date"
    /\ \E o \in HandshakeOutcomes :
         LET got == IF o = "ok" THEN HiddenFields(f_session, "B") ELSE NoTok
         IN /\ f_log' = Append(f_log, LogEntry("POST_DATE", Step2Payload(f_tok1), o, got))
            /\ f_nreq' = f_nreq + 1
            /\ f_tok2' = got
            /\ IF o = "ok"
               THEN /\ f_pc' = "post_dl"
                    /\ UNCHANGED <<f_attempt, f_natt, f_session, f_used, f_result, f_cache>>
               ELSE AttemptFailed
    /\ UNCHANGED <<f_peers, f_period, f_tok1, f_r3, f_notok, f_parsed, f_usable, f_calls,
                   f_saved>>

\* STEP 3: r3 = session.post(base_url, payload_step3); the archive is returned when
\* the status is 200 and the response is recognised as a zip
FetchPostDownload ==
    /\ f_pc = "post_dl"
    /\ f_nreq' = f_nreq + 1
    /\ \/ \E body \in DownloadBodies :
            /\ f_r3' = body
            /\ IF IsZip(body)
               THEN /\ f_log' = Append(f_log, LogEntry("POST_DL", Step3Payload(f_tok1, f_tok2), "zip", NoTok))
                    /\ f_pc' = "parse"
                    /\ f_saved' = f_saved
                    /\ UNCHANGED <<f_attempt, f_natt, f_session, f_used, f_result, f_cache>>
               ELSE /\ f_log' = Append(f_log, LogEntry("POST_DL", Step3Payload(f_tok1, f_tok2), "not_zip", NoTok))
                    /\ \E written \in BOOLEAN :
                          f_saved' = save_debug_html(f_saved, f_attempt, written)
                    /\ AttemptFailed
       \/ \E o \in {"exception", "bad_status"} :
            /\ f_r3' = NoResponse
            /\ f_log' = Append(f_log, LogEntry("POST_DL", Step3Payload(f_tok1, f_tok2), o, NoTok))
            /\ f_saved' = f_saved
            /\ AttemptFailed
    /\ UNCHANGED <<f_peers, f_period, f_tok1, f_tok2, f_notok, f_parsed, f_usable, f_calls>>

\* a parser that writes the cache file whatever it found
CacheAfterParse_Always(cache, period, cert_data_map) ==
    [cache EXCEPT ![period] = RowsFile(cert_data_map)]

\* if cert_data_map: df_q.to_csv(cache_file, index=False)
CacheAfterParse(cache, period, cert_data_map) ==
    IF cert_data_map # {} THEN [cache EXCEPT ![period] = RowsFile(cert_data_map)] ELSE cache

\* zipfile.ZipFile(...) and the record parsing: records are the certs of the archive's
\* rows; on any exception, and when no queried cert is found, the frame is empty
FetchParse ==
    /\ f_pc = "parse"
    /\ f_parsed' = TRUE
    /\ \/ Return({}, f_cache)
       \/ \E records \in SUBSET AllCerts :
            LET cert_data_map == records \cap f_peers
            IN Return(cert_data_map, CacheAfterParse(f_cache, f_period, cert_data_map))
    /\ UNCHANGED <<f_peers, f_period, f_attempt, f_session, f_tok1, f_tok2, f_r3, f_log,
                   f_nreq, f_natt, f_notok, f_usable, f_calls, f_saved, f_used>>

(***************************************************************************)
(* Sequences of fetch_quarter_data calls                                   *)
(***************************************************************************)
FetchCalls == 2

FetchPeriods == {1, 2}

CacheFiles == {NoFile, UnusableFile} \cup {RowsFile(cs) : cs \in (SUBSET AllCerts) \ {{}}}

FetchInit ==
    /\ phase = "fetch"
    /\ AnalyticsIdleExcept("none")
    /\ ResolveIdle
    /\ YtdIdle
    /\ MergeIdle
    /\ HealIdle
    /\ f_peers \in (SUBSET AllCerts) \ {{}}
    /\ f_cache \in [FetchPeriods -> CacheFiles]
    /\ f_pc = "idle"
    /\ f_period = 0
    /\ f_attempt = 0
    /\ f_session = <<>>
    /\ f_tok1 = NoTok
    /\ f_tok2 = NoTok
    /\ f_r3 = NoResponse
    /\ f_log = <<>>
    /\ f_nreq = 0
    /\ f_natt = 0
    /\ f_notok = 0
    /\ f_parsed = FALSE
    /\ f_usable = FALSE
    /\ f_result = {}
    /\ f_calls = 0
    /\ f_saved = {}
    /\ f_used = {}

others_f == <<phase, rvars, yvars, mvars, hvars, avars>>

CallCacheHit == \E p \in FetchPeriods :
    /\ phase = "fetch" /\ f_calls < FetchCalls
    /\ BeginFetchHit(p) /\ UNCHANGED others_f

CallDownload == \E p \in FetchPeriods :
    /\ phase = "fetch" /\ f_calls < FetchCalls
    /\ BeginFetchMiss(p) /\ UNCHANGED others_f

HttpGet == FetchGet /\ UNCHANGED others_f

HttpPostDate == FetchPostDate /\ UNCHANGED others_f

HttpPostDownload == FetchPostDownload /\ UNCHANGED others_f

ParseArchive == FetchParse /\ UNCHANGED others_f

FetchNext ==
    \/ CallCacheHit
    \/ CallDownload
    \/ HttpGet
    \/ HttpPostDate
    \/ HttpPostDownload
    \/ ParseArchive

SpecFetch == FetchInit /\ [][FetchNext]_vars

\* every request carries a timeout (30 s, 120 s for the download) and the parser
\* works on bytes already received: a call that is under way takes its next step
SpecFetchFair ==
    /\ SpecFetch
    /\ WF_vars(HttpGet)
    /\ WF_vars(HttpPostDate)
    /\ WF_vars(HttpPostDownload)
    /\ WF_vars(ParseArchive)


(***************************************************************************)
(* Claims about fetch_quarter_data                                         *)
(***************************************************************************)
\* C4: in every download attempt the requests go GET, date-selection POST, download
\* POST: a download POST is sent only after the date-selection POST of the same
\* attempt returned 200 with hidden tokens, and it carries the tokens of that
\* response, not those of the initial GET.
C4_HandshakeOrder ==
    /\ Len(f_log) <= 3
    /\ \A i \in DOMAIN f_log :
          /\ f_log[i].req = <<"GET", "POST_DATE", "POST_DL">>[i]
          /\ f_log[i].session = f_log[1].session
          /\ i > 1 => f_log[i - 1].status = "ok" /\ f_log[i - 1].got # NoTok
    /\ \A i \in DOMAIN f_log :
          f_log[i].req = "POST_DL" =>
              /\ f_log[i].sent = f_log[2].got
              /\ f_log[i].sent # f_log[1].got

\* a download POST has been sent in the current attempt
C4_Witness ==
    /\ Len(f_log) = 3
    /\ f_log[3].req = "POST_DL"
    /\ f_log[3].sent = HiddenFields(f_session, "B")

\* C5: when every attempt of a call gets a first response without hidden tokens, the
\* handshake runs exactly MAX_ATTEMPTS times, each attempt being the initial GET
\* alone, the call gives the period up with an empty frame, and the archive parser
\* is never reached.
C5_TokenFailureRetries ==
    (f_natt >= 1 /\ f_notok = f_natt) =>
        /\ f_pc = "idle"
        /\ f_natt = 3
        /\ f_nreq = 3
        /\ ~f_parsed
        /\ f_result = {}

\* a call given up after three token-less first responses
C5_Witness ==
    /\ f_pc = "idle"
    /\ f_calls >= 1
    /\ f_notok = 3
    /\ f_natt = 3
    /\ f_log[1].status = "no_tokens"

\* C8: a call for a period whose cache file exists and is readable with a CERT
\* column sends no HTTP request and returns exactly the cached rows of the queried
\* institutions.
C8_CacheBeforeNetwork ==
    (f_calls >= 1 /\ f_usable) =>
        /\ f_pc = "idle"
        /\ f_nreq = 0
        /\ f_natt = 0
        /\ ~f_parsed
        /\ f_result = {c \in f_cache[f_period].certs : c \in f_peers}

\* a cache hit whose file also holds an institution that was not queried
C8_Witness ==
    /\ f_calls >= 1
    /\ f_usable
    /\ f_result # {}
    /\ f_result # f_cache[f_period].certs
    /\ f_nreq = 0


(***************************************************************************)
(* FFIEC bulk healer: heal_dataset                                         *)
(***************************************************************************)
HEAL_WINDOW == 8

CanaryFields == {"RCFD1545", "LNOTHPCS", "RCFDJ466"}

\* a need assessment that always asks for the bulk download
QuarterNeedsPatching_Always(df, p) == TRUE

\* _quarter_needs_patching: over half of the period's canary cells missing or zero
QuarterNeedsPatching(df, p) ==
    LET q_data == {k \in DOMAIN df : k[2] = p}
        check_cols == CanaryFields \cap Cols(df)
        cells == q_data \X check_cols
        missing_or_zero == {x \in cells : isna(df[x[1]][x[2]]) \/ IsZero(df[x[1]][x[2]])}
    IN IF DOMAIN df = {} THEN TRUE
       ELSE IF q_data = {} THEN FALSE
       ELSE IF check_cols = {} THEN TRUE
       ELSE 2 * Cardinality(missing_or_zero) > Cardinality(cells)

RECURSIVE SortDesc(_)
\* sorted(..., reverse=True)
SortDesc(ps) ==
    IF ps = {} THEN <<>>
    ELSE LET m == CHOOSE a \in ps : \A b \in ps : b <= a
         IN <<m>> \o SortDesc(ps \ {m})

\* a healer that walks every period of the frame
HealDates_All(df) == SortDesc({k[2] : k \in DOMAIN df})

\* sorted(df_fdic['REPDTE'].unique(), reverse=True)[:8]
HealDates(df) ==
    LET all == SortDesc({k[2] : k \in DOMAIN df})
    IN SubSeq(all, 1, IF Len(all) < HEAL_WINDOW THEN Len(all) ELSE HEAL_WINDOW)

\* the fields parsed from the archive (or read back from the cache) for a cert
RecoveredRow(c, p) == [RCFD1545 |-> Some(300 + c)]

\* the frame fetch_quarter_data returned: one row per cert of the result
FrameOf(certs, p) == [k \in {<<c, p>> : c \in certs} |-> RecoveredRow(k[1], p)]

RECURSIVE Concat(_)
\* pd.concat(ffiec_frames, ignore_index=True), then set_index(['CERT', 'REPDTE'])
Concat(frames) ==
    IF frames = <<>> THEN <<>>
    ELSE LET rest == Concat(Tail(frames))
             first == Head(frames)
         IN [k \in DOMAIN first \cup DOMAIN rest |->
                IF k \in DOMAIN first THEN first[k] ELSE rest[k]]

\* a loop that stops at the first period without data
RemainingAfter_Abort(dates, got_data) == IF got_data THEN Tail(dates) ELSE <<>>

\* for dt in dates: the loop goes on to the next date whatever the fetch returned
RemainingAfter(dates, got_data) == Tail(dates)

\* df['FFIEC_RIC_STATUS'] = value: one value for every row of the frame
StatusColumn(df, value) == [k \in DOMAIN df |-> value]

\* the fields of FDIC_FIELDS_TO_FETCH among the columns the model follows
FetchListColumns == {"ASSET", "LNOTHPCS"}

\* fetch_all_banks, step 4: every field of the fetch list missing from the frame
\* becomes a NaN column
AddMissingFields(df) ==
    [k \in DOMAIN df |->
        [c \in DOMAIN df[k] \cup FetchListColumns |->
            IF c \in DOMAIN df[k] THEN df[k][c] ELSE NaN]]

\* pd.to_numeric(errors='coerce') over every column but CERT, NAME, REPDTE: the
\* status strings are not numbers and become NaN (written "NaN" in this column)
CoerceStatus(status) == [k \in DOMAIN status |-> "NaN"]

HealPeriods == 2

HealCerts == {1, 2}

HealKeys == HealCerts \X (1..HealPeriods)

HealRows == {[ASSET |-> Some(7), RCFD1545 |-> v] : v \in {Some(0), Some(500)}}

HealInit ==
    /\ phase = "heal"
    /\ AnalyticsIdleExcept("none")
    /\ ResolveIdle
    /\ YtdIdle
    /\ MergeIdle
    /\ h_df \in [HealKeys -> HealRows]
    /\ h_df0 = h_df
    /\ h_status = <<>>
    /\ h_pc = "start"
    /\ h_dates = <<>>
    /\ h_frames = <<>>
    /\ h_skipped = {}
    /\ h_called = {}
    /\ h_failed = {}
    /\ f_peers = HealCerts
    /\ f_cache \in [1..HealPeriods -> {NoFile, RowsFile(HealCerts)}]
    /\ f_pc = "idle"
    /\ f_period = 0
    /\ f_attempt = 0
    /\ f_session = <<>>
    /\ f_tok1 = NoTok
    /\ f_tok2 = NoTok
    /\ f_r3 = NoResponse
    /\ f_log = <<>>
    /\ f_nreq = 0
    /\ f_natt = 0
    /\ f_notok = 0
    /\ f_parsed = FALSE
    /\ f_usable = FALSE
    /\ f_result = {}
    /\ f_calls = 0
    /\ f_saved = {}
    /\ f_used = {}

others_h == <<phase, rvars, yvars, mvars, avars>>

\* heal_dataset up to the for loop: an empty frame is returned as it is
HealStart ==
    /\ phase = "heal"
    /\ h_pc = "start"
    /\ IF DOMAIN h_df = {}
       THEN h_pc' = "done" /\ h_dates' = <<>>
       ELSE h_pc' = "loop" /\ h_dates' = HealDates(h_df)
    /\ UNCHANGED <<h_df, h_df0, h_status, h_frames, h_skipped, h_called, h_failed>>
    /\ UNCHANGED <<others_h, fvars>>

\* loop body, "[Skip] Data sufficient": continue
HealSkip ==
    /\ h_pc = "loop"
    /\ h_dates # <<>>
    /\ ~QuarterNeedsPatching(h_df, Head(h_dates))
    /\ h_skipped' = h_skipped \cup {Head(h_dates)}
    /\ h_dates' = Tail(h_dates)
    /\ UNCHANGED <<h_df, h_df0, h_status, h_pc, h_frames, h_called, h_failed>>
    /\ UNCHANGED <<others_h, fvars>>

\* loop body: fetch_quarter_data is called and served from the cache
HealFetchCached ==
    /\ h_pc = "loop"
    /\ h_dates # <<>>
    /\ QuarterNeedsPatching(h_df, Head(h_dates))
    /\ BeginFetchHit(Head(h_dates))
    /\ h_called' = h_called \cup {Head(h_dates)}
    /\ h_pc' = "wait"
    /\ UNCHANGED <<h_df, h_df0, h_status, h_dates, h_frames, h_skipped, h_failed>>
    /\ UNCHANGED others_h

\* loop body: fetch_quarter_data is called and starts the download
HealFetchDownload ==
    /\ h_pc = "loop"
    /\ h_dates # <<>>
    /\ QuarterNeedsPatching(h_df, Head(h_dates))
    /\ BeginFetchMiss(Head(h_dates))
    /\ h_called' = h_called \cup {Head(h_dates)}
    /\ h_pc' = "wait"
    /\ UNCHANGED <<h_df, h_df0, h_status, h_dates, h_frames, h_skipped, h_failed>>
    /\ UNCHANGED others_h

\* loop body after fetch_quarter_data returned: keep a non-empty frame, warn otherwise
HealCollect ==
    /\ h_pc = "wait"
    /\ f_pc = "idle"
    /\ IF f_result # {}
       THEN /\ h_frames' = Append(h_frames, FrameOf(f_result, Head(h_dates)))
            /\ UNCHANGED h_failed
       ELSE /\ h_failed' = h_failed \cup {Head(h_dates)}
            /\ UNCHANGED h_frames
    /\ h_dates' = RemainingAfter(h_dates, f_result # {})
    /\ h_pc' = "loop"
    /\ UNCHANGED <<h_df, h_df0, h_status, h_skipped, h_called>>
    /\ UNCHANGED <<others_h, fvars>>

\* after the loop: nothing recovered -> status FAILED; otherwise merge, status SUCCESS
HealFinish ==
    /\ h_pc = "loop"
    /\ h_dates = <<>>
    /\ IF h_frames = <<>>
       THEN /\ h_df' = h_df
            /\ h_status' = StatusColumn(h_df, "FAILED")
       ELSE /\ h_df' = HealMerge(h_df, Concat(h_frames))
            /\ h_status' = StatusColumn(h_df, "SUCCESS")
    /\ h_pc' = "done"
    /\ UNCHANGED <<h_df0, h_dates, h_frames, h_skipped, h_called, h_failed>>
    /\ UNCHANGED <<others_h, fvars>>

\* fetch_all_banks after the healer: the healed frame replaces combined_df, missing
\* fetch-list fields are added, the columns are coerced to numbers, the frame is
\* returned
ReturnDataset ==
    /\ h_pc = "done"
    /\ h_df' = AddMissingFields(h_df)
    /\ h_status' = CoerceStatus(h_status)
    /\ h_pc' = "returned"
    /\ UNCHANGED <<h_df0, h_dates, h_frames, h_skipped, h_called, h_failed>>
    /\ UNCHANGED <<others_h, fvars>>

HealNext ==
    \/ HealStart
    \/ HealSkip
    \/ HealFetchCached
    \/ HealFetchDownload
    \/ (h_pc = "wait" /\ HttpGet)
    \/ (h_pc = "wait" /\ HttpPostDate)
    \/ (h_pc = "wait" /\ HttpPostDownload)
    \/ (h_pc = "wait" /\ ParseArchive)
    \/ HealCollect
    \/ HealFinish
    \/ ReturnDataset

SpecHeal == HealInit /\ [][HealNext]_vars


(***************************************************************************)
(* Claims about heal_dataset                                               *)
(***************************************************************************)
\* the value the healing merge owes a cell, given what was recovered for it
Healed(existing, rec) ==
    IF isna(existing) THEN rec
    ELSE IF IsZero(existing) /\ NonZero(rec) THEN rec
    ELSE existing

\* C6: a period whose fetch came back empty (retries exhausted, archive unreadable)
\* never aborts the batch: the run can always take its next step, every date of the
\* list is still visited, the rows recovered for the periods that succeeded are
\* merged, and the whole dataset is returned by heal_dataset and by fetch_all_banks.
C6_FailedPeriodDoesNotAbort ==
    /\ (phase = "heal" /\ h_pc # "returned") => ENABLED HealNext
    /\ h_pc \in {"done", "returned"} =>
          /\ \A p \in Range(HealDates(h_df0)) : p \in h_skipped \cup h_called
          /\ h_called \ h_failed = {k[2] : k \in UNION {DOMAIN h_frames[i] : i \in DOMAIN h_frames}}
          /\ DOMAIN h_df = DOMAIN h_df0
          /\ DOMAIN h_status = DOMAIN h_df0
          /\ \A i \in DOMAIN h_frames : \A k \in DOMAIN h_frames[i] \cap DOMAIN h_df0 :
                h_df[k]["RCFD1545"] = Healed(h_df0[k]["RCFD1545"], h_frames[i][k]["RCFD1545"])

\* period 2 was given up after three attempts, period 1 was then downloaded and merged
C6_Witness ==
    /\ h_pc = "returned"
    /\ h_failed = {2}
    /\ h_called = {1, 2}
    /\ f_cache[2] = NoFile
    /\ h_df0[<<1, 1>>]["RCFD1545"] = Some(0)
    /\ h_df[<<1, 1>>]["RCFD1545"] = Some(301)
    /\ f_parsed

\* C7: after heal_dataset returns, the rows of every period whose download failed
\* carry the FAILED status, also when other periods were healed.
C7_FailedPeriodsMarked ==
    h_pc = "done" =>
        \A k \in DOMAIN h_df : k[2] \in h_failed => h_status[k] = "FAILED"

\* the canary fields are present and non-zero in over half of the period's cells
CanarySufficient(df, p) ==
    LET cells == {k \in DOMAIN df : k[2] = p} \X (CanaryFields \cap Cols(df))
        good == {x \in cells : NonZero(df[x[1]][x[2]])}
    IN cells # {} /\ 2 * Cardinality(good) > Cardinality(cells)

\* C9: a period whose canary fields are present and non-zero in over half of its
\* cells is skipped: fetch_quarter_data (the only reader of the cache and the only
\* sender of requests) is never called for it, and its cells are left unchanged.
C9_SufficientPeriodSkipped ==
    \A p \in Range(HealDates(h_df0)) :
        CanarySufficient(h_df0, p) =>
            /\ p \notin h_called
            /\ \A k \in DOMAIN h_df0 : \A c \in DOMAIN h_df0[k] : k[2] = p => h_df[k][c] = h_df0[k][c]
            /\ h_pc \in {"done", "returned"} => p \in h_skipped

\* period 2 is sufficient and skipped while period 1 is downloaded and healed
C9_Witness ==
    /\ h_pc = "done"
    /\ CanarySufficient(h_df0, 2)
    /\ h_skipped = {2}
    /\ h_called = {1}
    /\ f_nreq >= 3
    /\ h_df[<<1, 1>>]["RCFD1545"] # h_df0[<<1, 1>>]["RCFD1545"]


(***************************************************************************)
(* Ratios: _safe_divide                                                    *)
(* A float is an exact fraction <<n, d>> in lowest terms with d > 0; the   *)
(* IEEE infinities are <<1, 0>> and <<-1, 0>>.  A cell is NaN or           *)
(* Some(fraction).  The Python object None is the pair of strings None.    *)
(***************************************************************************)
Abs(x) == IF x < 0 THEN 0 - x ELSE x

RECURSIVE GCD(_, _)
GCD(a, b) == IF b = 0 THEN a ELSE GCD(b, a % b)

Sign(x) == IF x < 0 THEN 0 - 1 ELSE IF x = 0 THEN 0 ELSE 1

\* the float n / d, for d # 0
Rat(n, d) ==
    LET g == GCD(Abs(n), Abs(d))
    IN <<(Sign(d) * n) \div g, Abs(d) \div g>>

Flt(n) == Some(Rat(n, 1))

None == <<"None", "None">>

\* a / b on floats as numpy divides: a NaN operand, or 0 / 0, gives NaN; x / 0 an infinity
FloatDiv(a, b) ==
    IF isna(a) \/ isna(b) THEN NaN
    ELSE IF Num(b)[1] = 0
         THEN (IF Num(a)[1] = 0 THEN NaN ELSE Some(<<Sign(Num(a)[1]), 0>>))
         ELSE Some(Rat(Num(a)[1] * Num(b)[2], Num(a)[2] * Num(b)[1]))

\* denominator != 0 on scalars: True for NaN
ScalarNonZero(d) == isna(d) \/ Num(d)[1] # 0

\* Series.fillna(fill_value), one element
FillNa(c, fill) == IF isna(c) THEN fill ELSE c

\* denominator.replace(0, np.nan), one element
ZeroToNaN(c) == IF notna(c) /\ Num(c)[1] = 0 THEN NaN ELSE c

\* _safe_divide(numerator, denominator, fill_value); form says how it is called:
\* "scalar": two scalars; "series": two index-aligned Series; "mixed": a Series
\* numerator and a scalar denominator
safe_divide(form, numerator, denominator, fill_value) ==
    IF form = "scalar"
    THEN (IF denominator = None THEN fill_value
          ELSE IF ScalarNonZero(denominator) THEN FloatDiv(numerator, denominator)
          ELSE fill_value)
    ELSE IF form = "series"
    THEN [i \in DOMAIN numerator |->
             FillNa(FloatDiv(numerator[i], ZeroToNaN(denominator[i])), fill_value)]
    ELSE IF denominator = None THEN fill_value
    ELSE [i \in DOMAIN numerator |-> FillNa(FloatDiv(numerator[i], denominator), fill_value)]

DivMaxLen == 2

DivCells == {NaN, Flt(0), Flt(3), Flt(0 - 6)}

DivSeries == UNION {[1..n -> DivCells] : n \in 1..DivMaxLen}

DivFills == {Flt(0), Flt(0 - 1)}

DivideInit ==
    /\ phase = "divide"
    /\ IngestIdle
    /\ AnalyticsIdleExcept("divide")
    /\ d_form \in {"scalar", "series", "mixed"}
    /\ d_fill \in DivFills
    /\ d_num \in IF d_form = "scalar" THEN DivCells ELSE DivSeries
    /\ d_den \in IF d_form = "series" THEN {s \in DivSeries : Len(s) = Len(d_num)}
                 ELSE DivCells \cup {None}
    /\ d_out = <<>>
    /\ d_pc = "input"

Divide ==
    /\ phase = "divide"
    /\ d_pc = "input"
    /\ d_out' = safe_divide(d_form, d_num, d_den, d_fill)
    /\ d_pc' = "done"
    /\ UNCHANGED <<phase, rvars, yvars, mvars, fvars, hvars, tvars,
                   d_form, d_num, d_den, d_fill, bvars, pvars, lvars>>

DivideNext == Divide

SpecDivide == DivideInit /\ [][DivideNext]_vars

(***************************************************************************)
(* Claims about _safe_divide                                               *)
(***************************************************************************)
\* a denominator that is zero or missing
ZeroOrMissing(d) == d = None \/ isna(d) \/ Num(d)[1] = 0

\* C14: whenever the denominator is zero or missing the result is exactly the
\* fill value, never NaN: for two scalars, and element by element for series.
C14_SafeDivideFills ==
    d_pc = "done" =>
        /\ (d_form = "scalar" /\ ZeroOrMissing(d_den)) => d_out = d_fill
        /\ d_form = "series" =>
              \A i \in DOMAIN d_den : ZeroOrMissing(d_den[i]) => d_out[i] = d_fill


(***************************************************************************)
(* Trailing metrics: calculate_ttm_metrics                                 *)
(* An input row is [cert, period, LNLS, NTLNLS_Q, PD, bal]: PD is the sum  *)
(* P3LNLS + P9LNLS and bal one category balance column; the cells hold     *)
(* whole numbers.  An output row is a function from column names to cells; *)
(* the cells of the computed columns hold fractions.                       *)
(***************************************************************************)
ROLL_WINDOW == 4

\* a growth that divides whatever the previous value is
calc_safe_growth_Unguarded(curr, prev) ==
    IF isna(curr) \/ isna(prev) THEN NaN
    ELSE FloatDiv(Flt(100 * (Num(curr) - Num(prev))), Flt(Abs(Num(prev))))

\* calc_safe_growth(curr, prev)
calc_safe_growth(curr, prev) ==
    IF isna(curr) \/ isna(prev) THEN NaN
    ELSE IF Num(prev) = 0 THEN (IF Num(curr) = 0 THEN Flt(0) ELSE NaN)
    ELSE Some(Rat(100 * (Num(curr) - Num(prev)), Abs(Num(prev))))

RECURSIVE SumCells(_, _, _)
\* the sum of the cells col[lo..hi], all present
SumCells(col, lo, hi) ==
    IF lo > hi THEN 0 ELSE Num(col[hi]) + SumCells(col, lo, hi - 1)

\* the window of rolling(4) ending at position k holds 4 observations, none missing
WindowFull(col, k) ==
    k >= ROLL_WINDOW /\ \A j \in (k - ROLL_WINDOW + 1)..k : notna(col[j])

\* col.rolling(4).sum() at position k
RollingSum(col, k) ==
    IF WindowFull(col, k) THEN Some(Rat(SumCells(col, k - ROLL_WINDOW + 1, k), 1)) ELSE NaN

\* col.rolling(4).mean() at position k
RollingMean(col, k) ==
    IF WindowFull(col, k)
    THEN Some(Rat(SumCells(col, k - ROLL_WINDOW + 1, k), ROLL_WINDOW)) ELSE NaN

\* col.shift(4) at position k
Shift4(col, k) == IF k > ROLL_WINDOW THEN col[k - ROLL_WINDOW] ELSE NaN

\* one column of a bank's sorted frame
BankCol(df, order, name) == [k \in 1..Len(order) |-> df[order[k]][name]]

\* the body of the loop for one bank: bank_df, sorted by REPDTE, with the trailing
\* columns added when the bank has at least 4 rows
TtmBank(df, order) ==
    LET n == Len(order)
        base(k) == [c \in {"cert", "period"} |-> df[order[k]][c]]
        avg_loans == [k \in 1..n |-> RollingMean(BankCol(df, order, "LNLS"), k)]
        nco_sum == [k \in 1..n |-> RollingSum(BankCol(df, order, "NTLNLS_Q"), k)]
        pd_mean == [k \in 1..n |-> RollingMean(BankCol(df, order, "PD"), k)]
        nco == safe_divide("series", nco_sum, avg_loans, Flt(0))
        pdr == safe_divide("series", pd_mean, avg_loans, Flt(0))
        bal == BankCol(df, order, "bal")
    IN [k \in 1..n |->
          IF n >= ROLL_WINDOW
          THEN base(k) @@ [c \in {"Growth_TTM", "TTM_NCO_Rate", "TTM_Past_Due_Rate"} |->
                             IF c = "Growth_TTM" THEN calc_safe_growth(bal[k], Shift4(bal, k))
                             ELSE IF c = "TTM_NCO_Rate" THEN nco[k] ELSE pdr[k]]
          ELSE base(k)]

RECURSIVE TtmFrames(_, _)
\* all_banks_data: one frame per CERT of certs, in groupby order
TtmFrames(df, certs) ==
    IF certs = {} THEN <<>>
    ELSE LET c == CHOOSE x \in certs : \A y \in certs : x <= y
         IN <<TtmBank(df, SortByPeriod(df, {j \in 1..Len(df) : df[j].cert = c}))>>
            \o TtmFrames(df, certs \ {c})

RECURSIVE Flatten(_)
Flatten(frames) == IF frames = <<>> THEN <<>> ELSE Head(frames) \o Flatten(Tail(frames))

\* pd.concat(frames, ignore_index=True): the columns are the union of the frames'
\* columns, a cell of a column a frame lacks is NaN
ConcatFrames(frames) ==
    LET rows == Flatten(frames)
        cols == UNION {DOMAIN rows[i] : i \in 1..Len(rows)}
    IN [i \in 1..Len(rows) |->
          [c \in cols |-> IF c \in DOMAIN rows[i] THEN rows[i][c] ELSE NaN]]

\* calculate_ttm_metrics(df)
calculate_ttm_metrics(df) ==
    IF df = <<>> THEN df
    ELSE ConcatFrames(TtmFrames(df, {df[i].cert : i \in 1..Len(df)}))


TtmCerts == {1, 2}
TtmPeriods == 6
TtmMaxRows == 5

TtmKeys == TtmCerts \X (1..TtmPeriods)

\* the value a bank files in a column for a period
TtmBase(col, c, p) ==
    IF col = "LNLS" THEN (1000 * c) + (100 * p)
    ELSE IF col = "NTLNLS_Q" THEN (10 * p) + c
    ELSE IF col = "PD" THEN 20 + p
    ELSE IF c = 1 THEN 100 + (10 * p) ELSE 0

\* the cells that can stand in one place of a column instead of the filed value
TtmOddCells(col) == IF col = "bal" THEN {NaN, Some(0), Some(50)} ELSE {NaN, Some(0)}

\* the frame of the keys ks, sorted by (CERT, REPDTE), with the cell of column
\* oddcol at key odd replaced by oddcell
TtmFrame(ks, odd, oddcol, oddcell) ==
    LET o == SortedKeys(ks)
    IN [i \in 1..Len(o) |->
          [cert |-> o[i][1], period |-> o[i][2]] @@
          [col \in {"LNLS", "NTLNLS_Q", "PD", "bal"} |->
             IF o[i] = odd /\ col = oddcol THEN oddcell
             ELSE Some(TtmBase(col, o[i][1], o[i][2]))]]

TtmInit ==
    /\ phase = "ttm"
    /\ IngestIdle
    /\ AnalyticsIdleExcept("ttm")
    /\ \E ks \in (SUBSET TtmKeys) \ {{}} :
          /\ Cardinality(ks) <= TtmMaxRows
          /\ \/ t_df = TtmFrame(ks, <<0, 0>>, "none", NaN)
             \/ \E odd \in ks : \E col \in {"LNLS", "NTLNLS_Q", "bal"} :
                   \E cell \in TtmOddCells(col) : t_df = TtmFrame(ks, odd, col, cell)
    /\ t_out = <<>>
    /\ t_pc = "input"

CalculateTtm ==
    /\ phase = "ttm"
    /\ t_pc = "input"
    /\ t_out' = calculate_ttm_metrics(t_df)
    /\ t_pc' = "done"
    /\ UNCHANGED <<phase, rvars, yvars, mvars, fvars, hvars, t_df, dvars, bvars, pvars, lvars>>

TtmNext == CalculateTtm

SpecTtm == TtmInit /\ [][TtmNext]_vars

(***************************************************************************)
(* Claims about calculate_ttm_metrics                                      *)
(***************************************************************************)
\* observations of the institution of output row i up to and including its period
ObservedUpTo(out, i) ==
    Cardinality({j \in 1..Len(out) :
                    out[j]["cert"] = out[i]["cert"] /\ out[j]["period"] <= out[i]["period"]})

\* the cell of a column of an output row, null when the frame has no such column
OutCell(out, i, c) == IF c \in DOMAIN out[i] THEN out[i][c] ELSE NaN

\* C12: at every period at which an institution has fewer than 4 observations the
\* rolling aggregates TTM_NCO_Rate and TTM_Past_Due_Rate are null; at the period
\* where it has exactly 4 they are defined.
C12_RollingWindowNull ==
    t_pc = "done" =>
        \A i \in 1..Len(t_out) : \A c \in {"TTM_NCO_Rate", "TTM_Past_Due_Rate"} :
            /\ ObservedUpTo(t_out, i) < ROLL_WINDOW => isna(OutCell(t_out, i, c))
            /\ ObservedUpTo(t_out, i) = ROLL_WINDOW => notna(OutCell(t_out, i, c))

\* the input row an output row was computed from
InRow(df, out, i) ==
    CHOOSE j \in 1..Len(df) : df[j].cert = out[i]["cert"] /\ df[j].period = out[i]["period"]

\* the input row of the same institution 4 observations before output row i
FourBack(df, out, i) ==
    CHOOSE j \in 1..Len(df) :
        /\ df[j].cert = out[i]["cert"]
        /\ df[j].period < out[i]["period"]
        /\ Cardinality({k \in 1..Len(df) : /\ df[k].cert = df[j].cert
                                            /\ df[k].period > df[j].period
                                            /\ df[k].period <= out[i]["period"]}) = ROLL_WINDOW

\* C13: the growth of a row compares the balance with the same institution's
\* balance 4 observations back: null when there is no such observation or one of
\* the two is missing; previous 0 and current 0 gives 0; previous 0 and current
\* non-zero gives null; otherwise (current - previous) / |previous| * 100.
C13_TrailingGrowth ==
    t_pc = "done" =>
        \A i \in 1..Len(t_out) :
            LET curr == t_df[InRow(t_df, t_out, i)].bal
                g == OutCell(t_out, i, "Growth_TTM")
            IN IF ObservedUpTo(t_out, i) <= ROLL_WINDOW THEN isna(g)
               ELSE LET prev == t_df[FourBack(t_df, t_out, i)].bal
                    IN IF isna(curr) \/ isna(prev) THEN isna(g)
                       ELSE IF Num(prev) = 0
                            THEN (IF Num(curr) = 0 THEN g = Flt(0) ELSE isna(g))
                            ELSE g = Some(Rat(100 * (Num(curr) - Num(prev)), Abs(Num(prev))))

\* institution 1 filed periods 1, 2, 3, 4 and 6: the growth at period 6 compares
\* with period 1, five quarters earlier (160 against 110)
C13_Witness ==
    /\ t_pc = "done"
    /\ Len(t_df) = 5
    /\ \A i \in 1..5 : t_df[i].cert = 1 /\ t_df[i].period = (IF i = 5 THEN 6 ELSE i)
    /\ t_df[1].bal = Some(110) /\ t_df[5].bal = Some(160)
    /\ t_out[5]["Growth_TTM"] = Some(Rat(5000, 110))


(***************************************************************************)
(* Ingestion: fetch_all_banks and the first lines of run                   *)
(* One step per institution request of the main loop; the separate LNCI    *)
(* fetch with its merge, the bulk healer and the final processing are one  *)
(* step each.  A date the LNCI fetch returns either is the period it       *)
(* stands for or differs from every date of the main table (OFF_DATE).     *)
(***************************************************************************)
\* certs_to_fetch: the subject bank, then the peers
certs_to_fetch == <<1, 2, 3>>

BatchPeriods == 1

\* added to a period: a date that equals no date of the main table
OFF_DATE == 100

\* a loop that gives the batch up at the first failed institution
BatchRemaining_Abort(todo, ok) == IF ok THEN Tail(todo) ELSE <<>>

\* for cert in certs_to_fetch: the except clause ends the iteration, not the loop
BatchRemaining(todo, ok) == Tail(todo)

RECURSIVE CombineFrames(_)
\* pd.concat(all_bank_data): one row per (cert, period) of every frame
CombineFrames(data) ==
    IF data = <<>> THEN <<>>
    ELSE [k \in {<<Head(data).cert, p>> : p \in Head(data).periods} |-> [ASSET |-> Some(7)]]
         @@ CombineFrames(Tail(data))

\* pd.merge(combined_df, lnci_df, on=['CERT', 'REPDTE'], how='left')
MergeLnci(df, lnci) ==
    [k \in DOMAIN df |->
        df[k] @@ [c \in {"LNCI"} |-> IF k \in DOMAIN lnci THEN lnci[k] ELSE NaN]]

\* combined_df['LNCI'] = np.nan
LnciAllNaN(df) == [k \in DOMAIN df |-> df[k] @@ [c \in {"LNCI"} |-> NaN]]

\* what fetch_lnci_separately can return for one cert: no rows, or a row per period
\* with the dates of the main table or with other dates, the value present or not
LnciOutcomes == {"none", "dated", "dated_nan", "off_dates"}

LnciRows(c, outcome) ==
    IF outcome = "none" THEN <<>>
    ELSE [k \in {<<c, (IF outcome = "off_dates" THEN OFF_DATE ELSE 0) + p>> :
                    p \in 1..BatchPeriods} |->
             IF outcome = "dated_nan" THEN NaN ELSE Some(40 + c)]

\* lnci_df for the outcomes o, a function from the positions of certs_to_fetch
LnciFrame(o) == LnciRows(certs_to_fetch[1], o[1]) @@ LnciRows(certs_to_fetch[2], o[2])
                @@ LnciRows(certs_to_fetch[3], o[3])

BatchInit ==
    /\ phase = "batch"
    /\ IngestIdle
    /\ AnalyticsIdleExcept("batch")
    /\ b_pc = "loop"
    /\ b_todo = certs_to_fetch
    /\ b_tried = <<>>
    /\ b_data = <<>>
    /\ b_failed = <<>>
    /\ b_df = <<>>
    /\ b_lnci = <<>>
    /\ b_status = <<>>
    /\ b_healer = "none"
    /\ b_run = "none"
    /\ b_loc = <<>>
    /\ b_hq = "N/A"
    /\ b_locs = <<>>

others_b == <<phase, rvars, yvars, mvars, fvars, hvars, tvars, dvars, pvars, lvars>>

\* one iteration of the main loop: the request fails (any exception), or answers
\* with no rows, or with the rows of some periods
FetchBank ==
    /\ phase = "batch"
    /\ b_pc = "loop"
    /\ b_todo # <<>>
    /\ b_tried' = Append(b_tried, Head(b_todo))
    /\ \/ /\ b_failed' = Append(b_failed, Head(b_todo))
          /\ b_todo' = BatchRemaining(b_todo, FALSE)
          /\ UNCHANGED b_data
       \/ /\ b_todo' = BatchRemaining(b_todo, TRUE)
          /\ \/ UNCHANGED b_data
             \/ \E ps \in (SUBSET (1..BatchPeriods)) \ {{}} :
                   b_data' = Append(b_data, [cert |-> Head(b_todo), periods |-> ps])
          /\ UNCHANGED b_failed
    /\ UNCHANGED <<b_pc, b_df, b_lnci, b_status, b_healer, b_run, b_loc, b_hq, b_locs, others_b>>

\* if not all_bank_data: return pd.DataFrame(), failed_certs
ReturnEmpty ==
    /\ phase = "batch"
    /\ b_pc = "loop"
    /\ b_todo = <<>>
    /\ b_data = <<>>
    /\ b_pc' = "returned"
    /\ UNCHANGED <<b_todo, b_tried, b_data, b_failed, b_df, b_lnci, b_status, b_healer,
                   b_run, b_loc, b_hq, b_locs, others_b>>

\* steps 2 and 3: combine, fetch LNCI separately, check the overlap (a log line
\* only), merge, retry the merge on string dates when no LNCI value was joined
CombineAndMergeLnci ==
    /\ phase = "batch"
    /\ b_pc = "loop"
    /\ b_todo = <<>>
    /\ b_data # <<>>
    /\ \E o \in [1..3 -> LnciOutcomes] :
          /\ b_lnci' = LnciFrame(o)
          /\ b_df' = IF LnciFrame(o) # <<>>
                     THEN MergeLnci(CombineFrames(b_data), LnciFrame(o))
                     ELSE LnciAllNaN(CombineFrames(b_data))
    /\ b_pc' = "heal"
    /\ UNCHANGED <<b_todo, b_tried, b_data, b_failed, b_status, b_healer, b_run, b_loc, b_hq, b_locs, others_b>>

\* the keys df_patch can hold: fetch_quarter_data is called for dates of the frame
\* with peer_certs = set(certs_to_fetch), and returns the rows of the certs found
\* in the archive of the date
HealerKeys(df) ==
    {certs_to_fetch[i] : i \in 1..Len(certs_to_fetch)} \X {k[2] : k \in DOMAIN df}

\* the key sets of a non-empty df_patch: the merge is aligned on the keys of the
\* frame, so a recovered row of a cert the frame has no row for at that date changes
\* no row; one such key stands for all in the patch that holds no key of the frame
PatchKeySets(df) ==
    LET outside == HealerKeys(df) \ DOMAIN df
    IN ((SUBSET DOMAIN df) \ {{}})
       \cup (IF outside = {} THEN {} ELSE {{CHOOSE k \in outside : TRUE}})

\* the dual-track recovery inside try/except: heal_dataset returns the frame merged
\* with the recovered rows and marked SUCCESS when at least one date gave a frame
\* (a date that was skipped or whose download failed, and a cert the archive lacks,
\* leave their rows unpatched), or the frame as it was marked FAILED, or raises
RunHealer ==
    /\ phase = "batch"
    /\ b_pc = "heal"
    /\ \/ /\ \E patch \in PatchKeySets(b_df) :
                b_df' = HealMerge(b_df, [k \in patch |-> RecoveredRow(k[1], k[2])])
          /\ b_status' = StatusColumn(b_df, "SUCCESS")
          /\ b_healer' = "returned"
       \/ /\ b_status' = StatusColumn(b_df, "FAILED")
          /\ b_healer' = "returned"
          /\ UNCHANGED b_df
       \/ /\ b_healer' = "exception"
          /\ UNCHANGED <<b_df, b_status>>
    /\ b_pc' = "finish"
    /\ UNCHANGED <<b_todo, b_tried, b_data, b_failed, b_lnci, b_run, b_loc, b_hq, b_locs, others_b>>

\* step 4 and the return
FinishBatch ==
    /\ phase = "batch"
    /\ b_pc = "finish"
    /\ b_df' = AddMissingFields(b_df)
    /\ b_status' = CoerceStatus(b_status)
    /\ b_pc' = "returned"
    /\ UNCHANGED <<b_todo, b_tried, b_data, b_failed, b_lnci, b_healer, b_run, b_loc, b_hq, b_locs, others_b>>

RECURSIVE CertsAsc(_)
\* fdic_df['CERT'].unique().tolist() on the frame fetch_all_banks returned, which is
\* sorted by CERT
CertsAsc(certs) ==
    IF certs = {} THEN <<>>
    ELSE LET m == CHOOSE c \in certs : \A d \in certs : c <= d
         IN <<m>> \o CertsAsc(certs \ {m})

\* what a request of get_bank_locations can end in:
\*   RequestException  connection, timeout or HTTP status: caught and logged
\*   no_data           a JSON object whose 'data' is empty or missing
\*   record            a JSON object with the expected records
\*   null_state        records whose STALP is null
\*   not_json          a body that is not JSON: response.json() raises a decoder
\*                     error, which is a ValueError and, depending on the version
\*                     of requests, a RequestException as well
\*   KeyError          records that lack 'data', NAME or STALP
\*   AttributeError    a JSON value that is not an object (no .get)
\*   TypeError         'data' or a record of it is not of the expected type (a
\*                     null record, a number for the list)
\*   OSError           an exception of the transport that is not a RequestException
\*   ValueError        a ValueError that is not a RequestException, raised by the
\*                     request or by response.json()
\*   RecursionError    a JSON body nested deeper than the decoder can follow
LocationAnswers ==
    {"RequestException", "no_data", "record", "null_state", "not_json",
     "KeyError", "AttributeError", "TypeError", "OSError", "ValueError", "RecursionError"}

\* the exceptions get_bank_locations does not catch: only RequestException is
LocationRaises ==
    {"KeyError", "AttributeError", "TypeError", "OSError", "ValueError", "RecursionError"}

\* pd.merge(fdic_df, locations_df, on='CERT', how='left') after NAME was dropped
MergeLocationsOnCert(df, locs) ==
    [k \in DOMAIN df |->
        df[k] @@ [c \in {"HQ_STATE"} |->
                    LET m == {i \in 1..Len(locs) : locs[i].cert = k[1]}
                    IN IF m = {} THEN "NaN" ELSE locs[CHOOSE i \in m : TRUE].HQ_STATE]]

\* run: if fdic_df.empty: raise ValueError; otherwise get_bank_locations is called
\* with the certs of the frame
RunContinues ==
    /\ phase = "batch"
    /\ b_pc = "returned"
    /\ IF b_df = <<>>
       THEN /\ b_run' = "ValueError"
            /\ b_pc' = "ran"
            /\ UNCHANGED b_loc
       ELSE /\ b_loc' = CertsAsc({k[1] : k \in DOMAIN b_df})
            /\ b_pc' = "loc_inst"
            /\ UNCHANGED b_run
    /\ UNCHANGED <<b_todo, b_tried, b_data, b_failed, b_df, b_lnci, b_status, b_healer,
                   b_hq, b_locs, others_b>>

\* a malformed answer: the exception leaves get_bank_locations and run, and the
\* locals of get_bank_locations are gone
LocationsRaise(answer) ==
    /\ b_run' = answer
    /\ b_pc' = "ran"
    /\ b_loc' = <<>>
    /\ b_hq' = "N/A"
    /\ b_locs' = <<>>

\* response.json() on a body that is not JSON: the exception is a RequestException
\* (caught, the defaults stay) or a plain ValueError (not caught), depending on the
\* version of requests installed; caught is the step taken when it is caught
NotJson(caught) == LocationsRaise("ValueError") \/ caught

\* get_bank_locations, the institutions request of one cert: bank_name and hq_state
\* are taken from the first record, or stay at their defaults
LocateInstitution ==
    /\ phase = "batch"
    /\ b_pc = "loc_inst"
    /\ b_loc # <<>>
    /\ \E answer \in LocationAnswers :
          LET goes_on == /\ b_hq' = IF answer = "record" THEN "NY"
                                    ELSE IF answer = "null_state" THEN "None" ELSE "N/A"
                         /\ b_pc' = "loc_branch"
                         /\ UNCHANGED <<b_run, b_loc, b_locs>>
          IN IF answer \in LocationRaises THEN LocationsRaise(answer)
             ELSE IF answer = "not_json" THEN NotJson(goes_on)
             ELSE goes_on
    /\ UNCHANGED <<b_todo, b_tried, b_data, b_failed, b_df, b_lnci, b_status, b_healer,
                   others_b>>

\* get_bank_locations, the locations request of the same cert; the states of the
\* branches go to all_states with the state of the head office, and the row is
\* built with ", ".join(sorted(list(all_states))), which raises TypeError when a
\* state is null; ALL_OPERATING_STATES is a column the model does not follow; then
\* the row of the cert is appended and the loop sleeps
LocateBranches ==
    /\ phase = "batch"
    /\ b_pc = "loc_branch"
    /\ \E answer \in LocationAnswers :
          LET appends == IF answer = "null_state" \/ b_hq = "None"
                         THEN LocationsRaise("TypeError")
                         ELSE /\ b_locs' = Append(b_locs, [cert |-> Head(b_loc),
                                                           HQ_STATE |-> b_hq])
                              /\ b_loc' = Tail(b_loc)
                              /\ b_hq' = "N/A"
                              /\ b_pc' = "loc_inst"
                              /\ UNCHANGED b_run
          IN IF answer \in LocationRaises THEN LocationsRaise(answer)
             ELSE IF answer = "not_json" THEN NotJson(appends)
             ELSE appends
    /\ UNCHANGED <<b_todo, b_tried, b_data, b_failed, b_df, b_lnci, b_status, b_healer,
                   others_b>>

\* run after get_bank_locations returned: the left merge on CERT, the availability
\* report (which reads the frame only), and on to create_derived_metrics
RunDerives ==
    /\ phase = "batch"
    /\ b_pc = "loc_inst"
    /\ b_loc = <<>>
    /\ b_df' = MergeLocationsOnCert(b_df, b_locs)
    /\ b_run' = "derive"
    /\ b_pc' = "ran"
    /\ UNCHANGED <<b_todo, b_tried, b_data, b_failed, b_lnci, b_status, b_healer, b_loc,
                   b_hq, b_locs, others_b>>

BatchNext ==
    \/ FetchBank
    \/ ReturnEmpty
    \/ CombineAndMergeLnci
    \/ RunHealer
    \/ FinishBatch
    \/ RunContinues
    \/ LocateInstitution
    \/ LocateBranches
    \/ RunDerives

SpecBatch == BatchInit /\ [][BatchNext]_vars


(***************************************************************************)
(* Claims about fetch_all_banks and run                                    *)
(***************************************************************************)
\* the LNCI fetch returned rows and none of their keys is a key of the main table
NoKeyOverlap == b_lnci # <<>> /\ (DOMAIN b_lnci) \cap (DOMAIN b_df) = {}

\* C15: when the LNCI fetch returns rows of which no key overlaps a key of the
\* main table, fetch_all_banks raises and never returns a dataset.
C15_JoinIntegrityRaises ==
    b_pc \in {"returned", "loc_inst", "loc_branch", "ran"} => ~NoKeyOverlap

\* the certs of the frames collected in all_bank_data
DataCerts == {b_data[i].cert : i \in 1..Len(b_data)}

\* C16: the requests go out for the institutions of certs_to_fetch in order, a
\* failed institution is appended to the failed list and contributes no rows, the
\* loop ends only after the last institution, and the rows of every institution
\* that answered are in the combined table.
C16_InstitutionFailureIsolated ==
    /\ Len(b_tried) <= Len(certs_to_fetch)
    /\ \A i \in 1..Len(b_tried) : b_tried[i] = certs_to_fetch[i]
    /\ b_pc # "loop" => b_tried = certs_to_fetch
    /\ \A i \in 1..Len(b_failed) : \E j \in 1..Len(b_tried) : b_failed[i] = b_tried[j]
    /\ \A i, j \in 1..Len(b_failed) :
          i < j => \E m, n \in 1..Len(b_tried) :
                      m < n /\ b_tried[m] = b_failed[i] /\ b_tried[n] = b_failed[j]
    /\ DataCerts \cap {b_failed[i] : i \in 1..Len(b_failed)} = {}
    /\ (b_pc \in {"heal", "finish", "returned", "loc_inst", "loc_branch", "ran"}
          /\ b_data # <<>>) =>
          DOMAIN b_df = UNION {{<<b_data[i].cert, p>> : p \in b_data[i].periods} :
                                 i \in 1..Len(b_data)}

\* the subject bank's request failed first; both peers were still fetched and
\* their rows returned
C16_Witness ==
    /\ b_pc = "returned"
    /\ b_failed = <<1>>
    /\ b_tried = certs_to_fetch
    /\ DataCerts = {2, 3}
    /\ <<2, 1>> \in DOMAIN b_df
    /\ <<3, 1>> \in DOMAIN b_df

\* C17: whatever institutions failed, whatever periods the healer failed for and
\* whether or not the healer raised, when no join-integrity failure occurred run
\* goes on to the derivation stage.
C17_OnlyJoinFailureFatal ==
    (b_pc = "ran" /\ ~NoKeyOverlap) => b_run = "derive"


(***************************************************************************)
(* Peers: _create_peer_composite and create_peer_comparison                *)
(* A table is a sequence of rows [cert, period, val]: val is the cell of   *)
(* one numeric metric column and holds a fraction.                         *)
(***************************************************************************)
PEER_GROUPS == <<
    [key |-> "Core_Private_Bank", short_name |-> "Core PB",
     certs |-> {34221, 33124, 57565}, display_order |-> 1],
    [key |-> "MS_Family_Plus", short_name |-> "MS+Wealth",
     certs |-> {34221, 32992, 33124, 57565, 57450, 17281}, display_order |-> 2],
    [key |-> "All_Peers", short_name |-> "Full Peer Set",
     certs |-> {34221, 32992, 33124, 57565, 57450, 17281, 628, 3511, 7213, 3510},
     display_order |-> 3] >>

base_dummy_cert == 90000

subject_bank_cert == 34221

RatAdd(a, b) == Rat((a[1] * b[2]) + (b[1] * a[2]), a[2] * b[2])

RatLess(a, b) == a[1] * b[2] < b[1] * a[2]

RECURSIVE SumVals(_, _)
\* the sum of the present values of the rows idxs of a table
SumVals(df, idxs) ==
    IF idxs = {} THEN <<0, 1>>
    ELSE LET i == CHOOSE x \in idxs : TRUE
         IN RatAdd(Num(df[i].val), SumVals(df, idxs \ {i}))

\* a mean that counts the missing values as observations of 0
MeanOf_CountMissing(df, idxs) ==
    LET present == {i \in idxs : notna(df[i].val)}
    IN IF present = {} THEN NaN
       ELSE LET s == SumVals(df, present)
            IN Some(Rat(s[1], s[2] * Cardinality(idxs)))

\* Series.mean() over the rows idxs: missing values are skipped, NaN when none is left
MeanOf(df, idxs) ==
    LET present == {i \in idxs : notna(df[i].val)}
    IN IF present = {} THEN NaN
       ELSE LET s == SumVals(df, present)
            IN Some(Rat(s[1], s[2] * Cardinality(present)))

RECURSIVE PeriodsAsc(_)
\* groupby('REPDTE'): the group keys in ascending order
PeriodsAsc(ps) ==
    IF ps = {} THEN <<>>
    ELSE LET m == CHOOSE p \in ps : \A q \in ps : p <= q
         IN <<m>> \o PeriodsAsc(ps \ {m})

\* a composite that averages every row of the table, not the group's members
GroupAvg_AllRows(df, g) ==
    LET ps == PeriodsAsc({df[i].period : i \in 1..Len(df)})
    IN [k \in 1..Len(ps) |->
          [cert |-> base_dummy_cert + g.display_order, period |-> ps[k],
           val |-> MeanOf(df, {i \in 1..Len(df) : df[i].period = ps[k]})]]

\* group_avg for one peer group: a row per REPDTE of peer_subset carrying the mean
\* of the members' values and the group's dummy CERT (<<>> when peer_subset is empty)
GroupAvg(df, g) ==
    LET subset == {i \in 1..Len(df) : df[i].cert \in g.certs}
        ps == PeriodsAsc({df[i].period : i \in subset})
    IN [k \in 1..Len(ps) |->
          [cert |-> base_dummy_cert + g.display_order, period |-> ps[k],
           val |-> MeanOf(df, {i \in subset : df[i].period = ps[k]})]]

RECURSIVE Composites(_, _)
\* composites, concatenated in the order of PEER_GROUPS
Composites(df, groups) ==
    IF groups = <<>> THEN <<>>
    ELSE GroupAvg(df, Head(groups)) \o Composites(df, Tail(groups))

\* _create_peer_composite(df)
create_peer_composite(df) == df \o Composites(df, PEER_GROUPS)


RECURSIVE SortVals(_, _)
\* the present values of the rows idxs, ascending
SortVals(df, idxs) ==
    IF idxs = {} THEN <<>>
    ELSE LET m == CHOOSE i \in idxs : \A j \in idxs : ~RatLess(Num(df[j].val), Num(df[i].val))
         IN <<Num(df[m].val)>> \o SortVals(df, idxs \ {m})

\* Series.median() over the rows idxs, none of them missing and idxs not empty
MedianOf(df, idxs) ==
    LET s == SortVals(df, idxs)
        n == Len(s)
    IN IF n % 2 = 1 THEN Some(s[(n + 1) \div 2])
       ELSE LET t == RatAdd(s[n \div 2], s[(n \div 2) + 1])
            IN Some(Rat(t[1], 2 * t[2]))

\* stats.percentileofscore(group_data, score, kind='rank')
PercentileOfScore(df, idxs, score) ==
    LET left == Cardinality({i \in idxs : RatLess(Num(df[i].val), score)})
        right == Cardinality({i \in idxs : ~RatLess(score, Num(df[i].val))})
    IN Some(Rat((left + right + (IF left < right THEN 1 ELSE 0)) * 50, Cardinality(idxs)))

\* str.lower(), one character
LowerChar(c) ==
    LET upper == <<"A", "B", "C", "D", "E", "F", "G", "H", "I", "J", "K", "L", "M",
                   "N", "O", "P", "Q", "R", "S", "T", "U", "V", "W", "X", "Y", "Z">>
        lower == <<"a", "b", "c", "d", "e", "f", "g", "h", "i", "j", "k", "l", "m",
                   "n", "o", "p", "q", "r", "s", "t", "u", "v", "w", "x", "y", "z">>
    IN IF \E i \in 1..26 : upper[i] = c
       THEN lower[CHOOSE i \in 1..26 : upper[i] = c] ELSE c

\* metric_code.lower()
Lower(s) == [i \in 1..Len(s) |-> LowerChar(s[i])]

\* term in metric
Contains(s, term) ==
    \E i \in 0..(Len(s) - Len(term)) : SubSeq(s, i + 1, i + Len(term)) = term

lower_is_better_terms == <<
    <<"n", "c", "o">>,
    <<"n", "p", "l">>,
    <<"p", "a", "s", "t", "_", "d", "u", "e">>,
    <<"n", "o", "n", "a", "c", "c", "r", "u", "a", "l">>,
    <<"c", "o", "s", "t", "_", "o", "f", "_", "f", "u", "n", "d", "s">>,
    <<"p", "d", "3", "0">>,
    <<"p", "d", "9", "0">>,
    <<"r", "i", "s", "k">> >>

\* any(term in metric for term in lower_is_better_terms)
is_risk_metric(metric_code) ==
    \E t \in 1..Len(lower_is_better_terms) :
        Contains(Lower(metric_code), lower_is_better_terms[t])

\* percentile <= bound, percentile a fraction
PctAtMost(pct, bound) == pct[1] <= bound * pct[2]

\* percentile >= bound
PctAtLeast(pct, bound) == pct[1] >= bound * pct[2]

\* a classification that reads every metric as higher-is-better
get_performance_flag_NoPolarity(metric_code, percentile) ==
    IF PctAtLeast(percentile, 75) THEN "Top Quartile (Strong)"
    ELSE IF PctAtLeast(percentile, 50) THEN "Better than Median"
    ELSE "Bottom Quartile (Weak)"

\* _get_performance_flag(metric_code, percentile)
get_performance_flag(metric_code, percentile) ==
    IF is_risk_metric(metric_code)
    THEN (IF PctAtMost(percentile, 25) THEN "Top Quartile (Low Risk)"
          ELSE IF PctAtMost(percentile, 50) THEN "Better than Median"
          ELSE "Bottom Quartile (High Risk)")
    ELSE (IF PctAtLeast(percentile, 75) THEN "Top Quartile (Strong)"
          ELSE IF PctAtLeast(percentile, 50) THEN "Better than Median"
          ELSE "Bottom Quartile (Weak)")

\* primary_percentile: the subject's percentile in the Core group's values, None
\* when the subject value is missing or the group has no value
PrimaryPercentile(subject_value, core) ==
    LET df == [i \in 1..Len(core) |-> [val |-> core[i]]]
        group_data == {i \in 1..Len(core) : notna(core[i])}
    IN IF group_data = {} \/ isna(subject_value) THEN None
       ELSE PercentileOfScore(df, group_data, Num(subject_value))

\* record["Performance_Flag"]
PerformanceFlag(metric_code, primary_percentile) ==
    IF primary_percentile # None
    THEN get_performance_flag(metric_code, Num(primary_percentile)) ELSE "N/A"

\* processed_df["REPDTE"].max()
LatestDate(df) == CHOOSE p \in {df[i].period : i \in 1..Len(df)} :
                      \A i \in 1..Len(df) : df[i].period <= p

\* the metric code of the column the tables of the peer model carry
PeerMetric == <<"T", "T", "M", "_", "N", "C", "O", "_", "R", "a", "t", "e">>

\* the statistics of one peer group over latest_data
GroupStats(df, latest, g, subject_value) ==
    LET group_data == {i \in latest : df[i].cert \in g.certs /\ notna(df[i].val)}
    IN [Median |-> MedianOf(df, group_data),
        Mean |-> MeanOf(df, group_data),
        Pct |-> IF notna(subject_value)
                THEN PercentileOfScore(df, group_data, Num(subject_value)) ELSE NaN]

\* create_peer_comparison(processed_df) for one metric column: <<>> is the empty
\* frame, otherwise the record of the metric
create_peer_comparison(df) ==
    IF df = <<>> THEN <<>>
    ELSE LET latest_date == LatestDate(df)
             latest == {i \in 1..Len(df) : df[i].period = latest_date}
             subject == {i \in latest : df[i].cert = subject_bank_cert}
         IN IF subject = {} THEN <<>>
            ELSE LET subject_value == df[CHOOSE i \in subject : \A j \in subject : i <= j].val
                     used == {n \in 1..Len(PEER_GROUPS) :
                                \E i \in latest : /\ df[i].cert \in PEER_GROUPS[n].certs
                                                   /\ notna(df[i].val)}
                     core == {n \in used : PEER_GROUPS[n].key = "Core_Private_Bank"}
                     primary_percentile ==
                         IF core = {} \/ isna(subject_value) THEN None
                         ELSE GroupStats(df, latest, PEER_GROUPS[CHOOSE n \in core : TRUE],
                                         subject_value).Pct
                 IN <<[date |-> latest_date,
                       Your_Bank |-> subject_value,
                       groups |-> [n \in used |->
                                     GroupStats(df, latest, PEER_GROUPS[n], subject_value)],
                       Performance_Flag |-> PerformanceFlag(PeerMetric, primary_percentile)]>>

PeerPeriods == 2
PeerMaxRows == 4

\* the institutions that can have rows in the table: the subject, a member of every
\* group, a member of two groups, a member of the widest group only, and the
\* composite of the first group
PeerTableCerts == {34221, 33124, 32992, 628, 90001}

PeerKeys == PeerTableCerts \X (1..PeerPeriods)

\* the metric value of an institution at a period
PeerVal(c, p) ==
    p + (IF c = 34221 THEN 10 ELSE IF c = 33124 THEN 20 ELSE IF c = 32992 THEN 40
         ELSE IF c = 628 THEN 80 ELSE 990)

PeerFrame(ks, nans) ==
    LET o == SortedKeys(ks)
    IN [i \in 1..Len(o) |->
          [cert |-> o[i][1], period |-> o[i][2],
           val |-> IF o[i] \in nans THEN NaN ELSE Flt(PeerVal(o[i][1], o[i][2]))]]

PeersInit ==
    /\ phase = "peers"
    /\ IngestIdle
    /\ AnalyticsIdleExcept("peers")
    /\ \E ks \in (SUBSET PeerKeys) \ {{}} :
          /\ Cardinality(ks) <= PeerMaxRows
          /\ \E nans \in SUBSET ks :
                /\ Cardinality(nans) <= 1
                /\ p_df0 = PeerFrame(ks, nans)
    /\ p_df = p_df0
    /\ p_cmp = <<>>
    /\ p_pc = "input"

others_p == <<phase, rvars, yvars, mvars, fvars, hvars, tvars, dvars, bvars, lvars>>

\* run: proc_df_with_peers = self._create_peer_composite(proc_df_with_ttm)
CreatePeerComposite ==
    /\ phase = "peers"
    /\ p_pc = "input"
    /\ p_df' = create_peer_composite(p_df)
    /\ p_pc' = "composited"
    /\ UNCHANGED <<p_df0, p_cmp, others_p>>

\* run: peer_comp_df = self.analyzer.create_peer_comparison(proc_df_with_peers)
CreatePeerComparison ==
    /\ phase = "peers"
    /\ p_pc = "composited"
    /\ p_cmp' = create_peer_comparison(p_df)
    /\ p_pc' = "compared"
    /\ UNCHANGED <<p_df0, p_df, others_p>>

PeersNext ==
    \/ CreatePeerComposite
    \/ CreatePeerComparison

SpecPeers == PeersInit /\ [][PeersNext]_vars


(***************************************************************************)
(* Claims about the peer composites and the peer comparison                *)
(***************************************************************************)
CompositeIds == {base_dummy_cert + PEER_GROUPS[n].display_order : n \in 1..Len(PEER_GROUPS)}

\* the rows of a table that are not composite rows
RealRows(df) == {i \in 1..Len(df) : df[i].cert \notin CompositeIds}

\* the rows of the members of group n at period p
MemberRows(df, n, p) ==
    {i \in 1..Len(df) : df[i].cert \in PEER_GROUPS[n].certs /\ df[i].period = p}

\* the arithmetic mean of the present values of the rows idxs
ArithmeticMean(df, idxs) ==
    LET present == {i \in idxs : notna(df[i].val)}
        total == SumVals(df, present)
    IN IF present = {} THEN NaN
       ELSE Some(Rat(total[1], total[2] * Cardinality(present)))

\* C18: given a table of real institutions, for every peer group and every period
\* at which a member has a row the output holds exactly one row of the group's
\* composite, whose value is the arithmetic mean of the members' values at that
\* period; there is no composite row for a period at which no member has a row.
C18_CompositeIsMemberMean ==
    (p_pc = "composited" /\ RealRows(p_df0) = 1..Len(p_df0)) =>
        \A n \in 1..Len(PEER_GROUPS) : \A p \in 1..PeerPeriods :
            LET rows == {i \in 1..Len(p_df) :
                            /\ p_df[i].cert = base_dummy_cert + PEER_GROUPS[n].display_order
                            /\ p_df[i].period = p}
            IN IF MemberRows(p_df0, n, p) = {} THEN rows = {}
               ELSE /\ Cardinality(rows) = 1
                    /\ \A i \in rows :
                          p_df[i].val = ArithmeticMean(p_df0, MemberRows(p_df0, n, p))

\* the core group has two members at period 1 (11 and 21, mean 16) and none at
\* period 2, where only a member of the widest group has a row
C18_Witness ==
    /\ p_pc = "composited"
    /\ Len(p_df0) = 3
    /\ RealRows(p_df0) = 1..3
    /\ MemberRows(p_df0, 1, 1) = {2, 3}
    /\ MemberRows(p_df0, 1, 2) = {}
    /\ MemberRows(p_df0, 3, 2) = {1}
    /\ \E i \in 4..Len(p_df) : p_df[i] = [cert |-> 90001, period |-> 1, val |-> Flt(16)]
    /\ \E i \in 4..Len(p_df) : p_df[i] = [cert |-> 90003, period |-> 2, val |-> Flt(82)]


RECURSIVE Keep(_, _)
\* the rows of a table at the positions idxs, in table order
Keep(df, idxs) ==
    IF df = <<>> THEN <<>>
    ELSE Keep(SubSeq(df, 1, Len(df) - 1), idxs)
         \o (IF Len(df) \in idxs THEN <<df[Len(df)]>> ELSE <<>>)

\* every institution a request is sent for: the subject and the members of the groups
RealCerts == {subject_bank_cert} \cup UNION {PEER_GROUPS[n].certs : n \in 1..Len(PEER_GROUPS)}

\* the group statistics of a comparison record equal those computed over the real
\* rows of the table at the record's date
StatsFromRealRows(df, rec) ==
    LET real == Keep(df, RealRows(df))
        latest == {i \in 1..Len(real) : real[i].period = rec.date}
    IN \A n \in DOMAIN rec.groups :
          rec.groups[n] = GroupStats(real, latest, PEER_GROUPS[n], rec.Your_Bank)

\* C19: the composite identifiers are pairwise distinct and are neither a real
\* institution's identifier nor a member of a peer group; the composite rows added
\* to a table and the group statistics of the comparison are those computed from
\* the table's real rows alone, also when the table already holds composite rows.
C19_CompositeIsolation ==
    /\ \A m, n \in 1..Len(PEER_GROUPS) :
          m # n => PEER_GROUPS[m].display_order # PEER_GROUPS[n].display_order
    /\ CompositeIds \cap RealCerts = {}
    /\ p_pc \in {"composited", "compared"} =>
          /\ SubSeq(p_df, Len(p_df0) + 1, Len(p_df))
               = Composites(Keep(p_df0, RealRows(p_df0)), PEER_GROUPS)
          /\ \A i \in (Len(p_df0) + 1)..Len(p_df) : \A n \in 1..Len(PEER_GROUPS) :
                p_df[i].cert = base_dummy_cert + PEER_GROUPS[n].display_order =>
                   p_df[i].val = ArithmeticMean(p_df0,
                                     RealRows(p_df0) \cap MemberRows(p_df0, n, p_df[i].period))
    /\ (p_pc = "compared" /\ p_cmp # <<>>) => StatsFromRealRows(p_df, p_cmp[1])

\* the table already held a row of composite 90001 next to the subject's row at the
\* same period; the new composite and the core group's mean are the subject's 11
C19_Witness ==
    /\ p_pc = "compared"
    /\ Len(p_df0) = 2
    /\ p_df0[1] = [cert |-> 34221, period |-> 1, val |-> Flt(11)]
    /\ p_df0[2] = [cert |-> 90001, period |-> 1, val |-> Flt(991)]
    /\ p_df[3] = [cert |-> 90001, period |-> 1, val |-> Flt(11)]
    /\ p_cmp # <<>>
    /\ p_cmp[1].groups[1].Mean = Flt(11)

\* the latest period at which the subject has a row
SubjectLatest(df) ==
    LET own == {df[i].period : i \in {j \in 1..Len(df) : df[j].cert = subject_bank_cert}}
    IN CHOOSE p \in own : \A q \in own : q <= p

\* C20: for every table in which the subject has a row the comparison is made at
\* the latest period at which the subject has a row: it carries the subject's value
\* at that period and, for every peer group with a value at that period, the
\* statistics of the members' values at that period.
C20_ComparisonAtSubjectLatest ==
    (p_pc = "compared" /\ \E i \in 1..Len(p_df0) : p_df0[i].cert = subject_bank_cert) =>
        /\ p_cmp # <<>>
        /\ p_cmp[1].date = SubjectLatest(p_df0)
        /\ \E i \in 1..Len(p_df0) : /\ p_df0[i].cert = subject_bank_cert
                                     /\ p_df0[i].period = SubjectLatest(p_df0)
                                     /\ p_cmp[1].Your_Bank = p_df0[i].val
        /\ \A n \in 1..Len(PEER_GROUPS) :
              LET members == {i \in MemberRows(p_df0, n, SubjectLatest(p_df0)) :
                                 notna(p_df0[i].val)}
              IN members # {} =>
                    /\ n \in DOMAIN p_cmp[1].groups
                    /\ p_cmp[1].groups[n].Mean = ArithmeticMean(p_df0, members)


(***************************************************************************)
(* Performance classification: the flag of one metric record               *)
(***************************************************************************)
FlagMaxPeers == 4

\* metric codes of FDIC_FIELD_DESCRIPTIONS: TTM_NCO_Rate, ROA,
\* Risk_Adj_Allowance_Coverage, P3LNLS
FlagMetrics == {
    PeerMetric,
    <<"R", "O", "A">>,
    <<"R", "i", "s", "k", "_", "A", "d", "j", "_", "A", "l", "l", "o", "w", "a", "n", "c", "e",
      "_", "C", "o", "v", "e", "r", "a", "g", "e">>,
    <<"P", "3", "L", "N", "L", "S">> }

FlagCells == {NaN, Flt(10), Flt(20), Flt(30)}

FlagInit ==
    /\ phase = "flag"
    /\ IngestIdle
    /\ AnalyticsIdleExcept("flag")
    /\ g_metric \in FlagMetrics
    /\ g_subject \in FlagCells
    /\ g_core \in UNION {[1..n -> FlagCells] : n \in 0..FlagMaxPeers}
    /\ g_pct = <<>>
    /\ g_flag = "none"
    /\ g_pc = "input"

\* the percentile of the subject in the Core group and the record's flag
ClassifyMetric ==
    /\ phase = "flag"
    /\ g_pc = "input"
    /\ g_pct' = PrimaryPercentile(g_subject, g_core)
    /\ g_flag' = PerformanceFlag(g_metric, PrimaryPercentile(g_subject, g_core))
    /\ g_pc' = "done"
    /\ UNCHANGED <<phase, rvars, yvars, mvars, fvars, hvars, tvars, dvars, bvars, pvars,
                   g_metric, g_subject, g_core, xvars>>

FlagNext == ClassifyMetric

SpecFlag == FlagInit /\ [][FlagNext]_vars

(***************************************************************************)
(* Claims about the performance classification                             *)
(***************************************************************************)
\* the class a flag text stands for
ClassOf(flag) ==
    IF flag \in {"Top Quartile (Low Risk)", "Top Quartile (Strong)"} THEN "top quartile"
    ELSE IF flag = "Better than Median" THEN "better than median"
    ELSE IF flag \in {"Bottom Quartile (High Risk)", "Bottom Quartile (Weak)"}
         THEN "bottom quartile"
    ELSE IF flag = "N/A" THEN "not available"
    ELSE "no class"

\* the polarity table: the metrics of FlagMetrics for which lower is better
LowerIsBetter == FlagMetrics \ {<<"R", "O", "A">>, <<"P", "3", "L", "N", "L", "S">>}

\* C21: a metric record gets exactly one of the four classes; it is not-available
\* exactly when the subject value is missing or the reference group has no value;
\* otherwise a lower-is-better metric is top quartile at a percentile <= 25, better
\* than median at <= 50, else bottom quartile, and a higher-is-better metric is top
\* quartile at >= 75, better than median at >= 50, else bottom quartile.
C21_PerformanceClass ==
    g_pc = "done" =>
        LET nopct == isna(g_subject) \/ \A i \in 1..Len(g_core) : isna(g_core[i])
            pct == Num(g_pct)
        IN /\ ClassOf(g_flag) # "no class"
           /\ (ClassOf(g_flag) = "not available") <=> nopct
           /\ ~nopct =>
                 ClassOf(g_flag) =
                    IF g_metric \in LowerIsBetter
                    THEN (IF pct[1] <= 25 * pct[2] THEN "top quartile"
                          ELSE IF pct[1] <= 50 * pct[2] THEN "better than median"
                          ELSE "bottom quartile")
                    ELSE (IF pct[1] >= 75 * pct[2] THEN "top quartile"
                          ELSE IF pct[1] >= 50 * pct[2] THEN "better than median"
                          ELSE "bottom quartile")

\* the subject's 10 is the lowest of four Core values and ties one of them: the
\* percentile is 25 and a risk metric is top quartile
C21_Witness ==
    /\ g_pc = "done"
    /\ g_metric = PeerMetric
    /\ g_subject = Flt(10)
    /\ g_core = <<Flt(10), Flt(20), Flt(30), Flt(30)>>
    /\ g_pct = Flt(25)
    /\ g_flag = "Top Quartile (Low Risk)"


(***************************************************************************)
(* The asynchronous FRED pool: FREDDataFetcher.fetch_all_series_async      *)
(* starts one data task and one metadata task per entry of series_ids.     *)
(* Each task acquires self.semaphore, sends its request, sleeps            *)
(* rate_limit_delay in its finally clause, and only then leaves the        *)
(* "async with self.semaphore" block.                                      *)
(***************************************************************************)
max_concurrent == 3

PoolMaxSeries == 2

\* series ids of FRED_SERIES_TO_FETCH; run() appends the keys of every category to
\* series_ids_to_fetch, and USSLIND is a key of two categories
PoolIds == {"USSLIND", "SOFR"}

\* all_tasks = data_tasks + metadata_tasks
all_tasks(series_ids) == 1..(2 * Len(series_ids))

IsDataTask(series_ids, i) == i <= Len(series_ids)

\* the series id task i was created for
TaskSeries(series_ids, i) ==
    IF IsDataTask(series_ids, i) THEN series_ids[i] ELSE series_ids[i - Len(series_ids)]

\* asyncio.Semaphore.locked of a semaphore that never turns a task away
locked_Never(value, waiters) == FALSE

\* asyncio.Semaphore.locked: no slot can be taken at once when the value is zero or
\* a waiter is queued (a waiter stays in the queue until it has run again; no task
\* of the pool is cancelled)
locked(value, waiters) == value = 0 \/ waiters # <<>>

\* asyncio.Semaphore._wake_up_next: the first queued waiter whose future is not
\* done yet is handed a slot (the value goes down by one and its future is set);
\* without such a waiter nothing changes
wake_up_next(value, waiters, task) ==
    LET undone == SelectSeq(waiters, LAMBDA w : task[w] = "waiting")
    IN IF undone = <<>>
       THEN [value |-> value, task |-> task]
       ELSE [value |-> value - 1, task |-> [task EXCEPT ![Head(undone)] = "woken"]]

\* what the request of a task can come to
PoolResponses == {"payload", "empty", "error"}

\* the second component of the returned tuple: the frame (or the metadata dict) when
\* the response held observations (or a "seriess" entry), None otherwise
TaskResult(response) == IF response = "payload" THEN "value" ELSE "None"

\* the loop over data_results: a frame goes to successful_dfs, anything else puts
\* the series id on failed_series
SuccessfulIds(series_ids, res) ==
    SelectSeq([i \in 1..Len(series_ids) |-> i], LAMBDA i : res[i] = "value")

FailedIds(series_ids, res) ==
    SelectSeq([i \in 1..Len(series_ids) |-> i], LAMBDA i : res[i] # "value")

\* pd.concat(successful_dfs, axis=1): one column per frame, named by its series id
MergedColumns(series_ids, res) ==
    LET ok == SuccessfulIds(series_ids, res)
    IN [k \in 1..Len(ok) |-> series_ids[ok[k]]]

failed_series(series_ids, res) ==
    LET bad == FailedIds(series_ids, res)
    IN [k \in 1..Len(bad) |-> series_ids[bad[k]]]

PoolInit ==
    /\ phase = "pool"
    /\ IngestIdle
    /\ AnalyticsIdleExcept("pool")
    /\ s_ids \in UNION {[1..n -> PoolIds] : n \in 0..PoolMaxSeries}
    /\ s_task = [i \in all_tasks(s_ids) |-> "pending"]
    /\ s_sem = max_concurrent
    /\ s_waiters = <<>>
    /\ s_res = [i \in all_tasks(s_ids) |-> "unset"]
    /\ s_cols = <<>>
    /\ s_failed = <<>>
    /\ s_pc = "running"

others_s == <<phase, rvars, yvars, mvars, fvars, hvars, tvars, dvars, bvars, pvars, gvars,
              vvars, kvars>>

\* "if not series_ids": nothing is fetched
ReturnNoSeries ==
    /\ phase = "pool"
    /\ s_pc = "running"
    /\ s_ids = <<>>
    /\ s_pc' = "returned"
    /\ UNCHANGED <<s_ids, s_task, s_sem, s_waiters, s_res, s_cols, s_failed, others_s>>

\* "async with self.semaphore", the first step of a task: while the semaphore is
\* not locked the task takes a slot and sends its request; otherwise it joins the
\* waiter queue and is suspended
AcquireSlot == \E i \in DOMAIN s_task :
    /\ phase = "pool"
    /\ s_pc = "running"
    /\ s_task[i] = "pending"
    /\ IF ~locked(s_sem, s_waiters)
       THEN /\ s_sem' = s_sem - 1
            /\ s_task' = [s_task EXCEPT ![i] = "request"]
            /\ UNCHANGED s_waiters
       ELSE /\ s_waiters' = Append(s_waiters, i)
            /\ s_task' = [s_task EXCEPT ![i] = "waiting"]
            /\ UNCHANGED s_sem
    /\ UNCHANGED <<s_ids, s_res, s_cols, s_failed, s_pc, others_s>>

\* a waiter that was handed a slot runs again: it leaves the waiter queue, passes
\* a free slot on when the value is positive ("if self._value > 0:
\* self._wake_up_next()"), and sends its request; the value was already taken
\* down for it when it was woken
ResumeWaiter == \E i \in DOMAIN s_task :
    /\ phase = "pool"
    /\ s_pc = "running"
    /\ s_task[i] = "woken"
    /\ LET rest == SelectSeq(s_waiters, LAMBDA w : w # i)
           woke == IF s_sem > 0 THEN wake_up_next(s_sem, rest, s_task)
                   ELSE [value |-> s_sem, task |-> s_task]
       IN /\ s_waiters' = rest
          /\ s_sem' = woke.value
          /\ s_task' = [woke.task EXCEPT ![i] = "request"]
    /\ UNCHANGED <<s_ids, s_res, s_cols, s_failed, s_pc, others_s>>

\* the request ends (a payload, no payload, or an exception the handlers catch):
\* the return value is fixed and the finally clause begins to sleep
RequestEnds == \E i \in DOMAIN s_task : \E response \in PoolResponses :
    /\ phase = "pool"
    /\ s_pc = "running"
    /\ s_task[i] = "request"
    /\ s_res' = [s_res EXCEPT ![i] = TaskResult(response)]
    /\ s_task' = [s_task EXCEPT ![i] = "delay"]
    /\ UNCHANGED <<s_ids, s_sem, s_waiters, s_cols, s_failed, s_pc, others_s>>

\* the sleep of the finally clause is over: the task leaves the semaphore block.
\* asyncio.Semaphore.release adds one to the value and calls _wake_up_next, so
\* with a waiter queued the slot is handed over and the value is left as it was
ReleaseSlot == \E i \in DOMAIN s_task :
    /\ phase = "pool"
    /\ s_pc = "running"
    /\ s_task[i] = "delay"
    /\ LET woke == wake_up_next(s_sem + 1, s_waiters, s_task)
       IN /\ s_sem' = woke.value
          /\ s_task' = [woke.task EXCEPT ![i] = "done"]
    /\ UNCHANGED <<s_ids, s_waiters, s_res, s_cols, s_failed, s_pc, others_s>>

\* gather has every result: the data results are split into successful_dfs and
\* failed_series and the successful frames are concatenated
GatherAndMerge ==
    /\ phase = "pool"
    /\ s_pc = "running"
    /\ s_ids # <<>>
    /\ \A i \in DOMAIN s_task : s_task[i] = "done"
    /\ s_cols' = MergedColumns(s_ids, s_res)
    /\ s_failed' = failed_series(s_ids, s_res)
    /\ s_pc' = "returned"
    /\ UNCHANGED <<s_ids, s_task, s_sem, s_waiters, s_res, others_s>>

PoolNext ==
    ReturnNoSeries \/ AcquireSlot \/ ResumeWaiter \/ RequestEnds \/ ReleaseSlot
        \/ GatherAndMerge

SpecPool == PoolInit /\ [][PoolNext]_vars

(***************************************************************************)
(* Claims about the asynchronous pool                                      *)
(***************************************************************************)
\* the tasks whose request is in flight, and the tasks inside the semaphore block
InFlight == {i \in DOMAIN s_task : s_task[i] = "request"}

SlotHolders == {i \in DOMAIN s_task : s_task[i] \in {"request", "delay"}}

\* the tasks a slot was handed to while they waited and that have not run since
Woken == {i \in DOMAIN s_task : s_task[i] = "woken"}

\* the queued tasks no slot was handed to yet
Waiting == {i \in DOMAIN s_task : s_task[i] = "waiting"}

\* C22: in every interleaving at most max_concurrent requests are in flight, at most
\* max_concurrent tasks are inside the semaphore block, and the slots taken (by the
\* tasks inside the block and by the waiters a slot was handed to) and the
\* semaphore's value add up to max_concurrent.  A task leaves its request only for
\* the delay and leaves the block only from the delay; when it leaves, its slot
\* goes to the first waiting task (the value stays as it was) or, with no task
\* waiting, back to the semaphore (the value goes up by one).  A task starts its
\* request only with a slot: one it takes from a positive value, or one it was
\* handed.
C22_BoundedConcurrency ==
    /\ [](/\ Cardinality(InFlight) <= max_concurrent
          /\ Cardinality(SlotHolders) <= max_concurrent
          /\ s_pc # "off" =>
                /\ s_sem >= 0
                /\ s_sem + Cardinality(SlotHolders) + Cardinality(Woken) = max_concurrent)
    /\ [][\A i \in DOMAIN s_task :
            /\ (s_task[i] = "request") => (s_task'[i] \in {"request", "delay"})
            /\ (s_task[i] \in {"request", "delay"} /\ s_task'[i] = "done")
                  => /\ s_task[i] = "delay"
                     /\ IF Waiting = {}
                        THEN s_sem' = s_sem + 1 /\ Woken' = Woken
                        ELSE /\ s_sem' = s_sem
                             /\ \E w \in Waiting : Woken' = Woken \cup {w}
            /\ (s_task[i] # "request" /\ s_task'[i] = "request")
                  => \/ s_task[i] = "pending" /\ s_sem > 0 /\ s_sem' = s_sem - 1
                     \/ s_task[i] = "woken" /\ s_sem' <= s_sem]_vars

\* a hand-over among four tasks: three took the slots and the fourth queued; one of
\* the three has finished its delay and left, its slot went to the queued task,
\* which has not run yet, and the value of the semaphore is still zero
C22_Witness ==
    /\ s_pc = "running"
    /\ Len(s_ids) = 2
    /\ Cardinality(SlotHolders) = max_concurrent - 1
    /\ Cardinality(InFlight) = 2
    /\ Cardinality(Woken) = 1
    /\ \E i \in DOMAIN s_task : s_task[i] = "done"
    /\ \A w \in Woken : s_waiters = <<w>>
    /\ s_sem = 0

\* the elements of a sequence
Elems(seq) == {seq[k] : k \in DOMAIN seq}

\* C26: once fetch_all_series_async has gathered, every task has run to completion
\* and given its slot back whatever its request came to, there is one result per
\* task, and every requested series id is either a column of the merged result or
\* listed in failed_series, never both and never neither.
C26_PoolFailureIsolation ==
    (s_pc = "returned" /\ s_ids # <<>>) =>
        /\ \A i \in DOMAIN s_task : s_task[i] = "done" /\ s_res[i] \in {"value", "None"}
        /\ DOMAIN s_res = all_tasks(s_ids)
        /\ s_sem = max_concurrent
        /\ \A id \in Elems(s_ids) : (id \in Elems(s_cols)) # (id \in Elems(s_failed))

(***************************************************************************)
(* Two runs of the field resolution layer on one raw table.  The layer     *)
(* assigns one column per entry of the fallback map, in the order of the   *)
(* map: df_processed[field] = df_processed.apply(resolve, axis=1).         *)
(***************************************************************************)
\* an apply that fills a row whose candidates gave nothing (a resolved 0) with the
\* last value resolved for a row above it
ApplyRows_ForwardFill(df, src, fld) ==
    LET own == [i \in DOMAIN df |-> resolve(df[i], src, fld)]
        filled(i) == {j \in 1..i : own[j] # Some(0)}
    IN [i \in DOMAIN df |->
           IF filled(i) = {} THEN own[i]
           ELSE own[CHOOSE j \in filled(i) : \A k \in filled(i) : k <= j]]

\* df_processed.apply(resolve, axis=1): resolve is called with each row in turn
ApplyRows(df, src, fld) == [i \in DOMAIN df |-> resolve(df[i], src, fld)]

\* df_processed[field] = series
AssignCol(df, field, series) == [i \in DOMAIN df |-> SetCol(df[i], field, series[i])]

RECURSIVE ResolutionFrame(_, _, _)
\* the loop over FDIC_FALLBACK_MAP.items() on the whole table
ResolutionFrame(df, fmap, i) ==
    IF i > Len(fmap) THEN df
    ELSE LET field == fmap[i][1]
             sources == fmap[i][2]
         IN IF "FFIEC" \in Range(sources)
            THEN ResolutionFrame(df, fmap, i + 1)
            ELSE ResolutionFrame(AssignCol(df, field, ApplyRows(df, sources, field)),
                                 fmap, i + 1)

RunIds == {1, 2}

\* a raw cell is missing, zero, or the value of its column
RunCells(c) == {NaN, Some(0), Some(ColBase(c))}

\* the (institution, period) of each row: the rows of a table differ in both
RunKey(i) == IF i = 1 THEN <<subject_bank_cert, 1>> ELSE <<33124, 2>>

\* the rows over the columns in present, for the institution and period of row i
RunRows(present, i) ==
    LET cells == {f \in [present -> UNION {RunCells(c) : c \in present}] :
                     \A c \in present : f[c] \in RunCells(c)}
    IN {[c \in present \cup {"CERT", "REPDTE"} |->
            IF c = "CERT" THEN Some(RunKey(i)[1])
            ELSE IF c = "REPDTE" THEN Some(RunKey(i)[2])
            ELSE f[c]] : f \in cells}

\* the raw tables of the two runs over the columns in present (columns one entry
\* of the map reads); every row of a table has the table's columns.  The runs get
\* the same table, or tables that differ in one row
RunPairs(present) ==
    LET first == RunRows(present, 1)
        second == RunRows(present, 2)
    IN {<< <<t[1], t[2]>>, <<t[3], t[2]>> >> : t \in first \X second \X first}
          \cup {<< <<t[1], t[2]>>, <<t[1], t[3]>> >> : t \in first \X second \X second}

RunsInit ==
    /\ phase = "runs"
    /\ IngestIdle
    /\ AnalyticsIdleExcept("runs")
    /\ v_map = FDIC_FALLBACK_MAP
    /\ \E e \in 1..Len(v_map) : \E present \in SUBSET InputCols(v_map, e) :
          v_df \in RunPairs(present)
    /\ v_out = [n \in RunIds |-> <<>>]

\* one run of create_derived_metrics, step [A], on the raw table handed to it: the
\* layer works on df.copy() and the raw table stays as it was
ResolveRun == \E n \in RunIds :
    /\ phase = "runs"
    /\ v_out[n] = <<>>
    /\ v_out' = [v_out EXCEPT ![n] = ResolutionFrame(v_df[n], v_map, 1)]
    /\ UNCHANGED <<phase, rvars, yvars, mvars, fvars, hvars, tvars, dvars, bvars, pvars,
                   gvars, svars, v_map, v_df, kvars>>

RunsNext == ResolveRun

SpecRuns == RunsInit /\ [][RunsNext]_vars

(***************************************************************************)
(* Claims about the determinism of the resolution                           *)
(***************************************************************************)
\* two raw rows hold the same raw values in the columns entry k of the map reads
RawAgree(r1, r2, fmap, k) ==
    \A c \in InputCols(fmap, k) :
        /\ (c \in DOMAIN r1) <=> (c \in DOMAIN r2)
        /\ (c \in DOMAIN r1) => (r1[c] = r2[c])

\* C23: take any two rows of the raw tables of two runs (the same run or not, the
\* same table or tables that differ in another row, the same institution and period
\* or not): when the two rows hold the same raw values in the candidate columns of
\* a metric, the two runs resolve the metric to the same value for them.  So runs on
\* identical raw tables agree on every (institution, period, metric), and a row's
\* resolved value depends on nothing but its own raw candidate values: not on the
\* run, the other rows of the table, the institution or the period.
C23_ResolutionDeterministic ==
    (\A n \in RunIds : v_out[n] # <<>>) =>
        \A n, m \in RunIds : \A i \in DOMAIN v_df[n] : \A j \in DOMAIN v_df[m] :
            \A k \in 1..Len(v_map) :
                ("FFIEC" \notin Range(v_map[k][2]) /\ RawAgree(v_df[n][i], v_df[m][j], v_map, k))
                    => v_out[n][i][v_map[k][1]] = v_out[m][j][v_map[k][1]]

\* the two runs are over tables that differ in their first row only.  The second
\* row (RCFD1545 is 0, RCON1545 is 200) resolves LNOTHPCS from RCON1545 in both
\* runs, although the row above it resolves to 100 in the first run; the first row
\* of the second run, another institution and period with the same raw values as
\* the second row, resolves to the same 200
C23_Witness ==
    /\ v_map = FDIC_FALLBACK_MAP
    /\ \A n \in RunIds : v_out[n] # <<>>
    /\ DOMAIN v_df[1][1] = {"CERT", "REPDTE", "RCFD1545", "RCON1545"}
    /\ v_df[1][1]["RCFD1545"] = Some(100) /\ v_df[1][1]["RCON1545"] = Some(200)
    /\ v_df[2][1]["RCFD1545"] = Some(0) /\ v_df[2][1]["RCON1545"] = Some(200)
    /\ v_df[1][2] = v_df[2][2]
    /\ v_df[1][2]["RCFD1545"] = Some(0) /\ v_df[1][2]["RCON1545"] = Some(200)
    /\ v_df[1][1]["CERT"] # v_df[1][2]["CERT"]
    /\ v_out[1][1]["LNOTHPCS"] = Some(100)
    /\ v_out[1][2]["LNOTHPCS"] = Some(200)
    /\ v_out[2][2]["LNOTHPCS"] = Some(200)
    /\ v_out[2][1]["LNOTHPCS"] = Some(200)

(***************************************************************************)
(* Claims about archive detection and the retries of fetch_quarter_data    *)
(***************************************************************************)
\* the step is the download POST of the current attempt
DownloadStep == f_pc = "post_dl" /\ f_nreq' = f_nreq + 1

\* the response to it had status 200 (f_r3 then holds the response)
Status200 == f_log'[Len(f_log')].status \in {"zip", "not_zip"}

\* C24, as stated: a status-200 response to the download POST is accepted as the archive if and
\* only if its body starts with the zip magic bytes or its content type names zip or
\* octet-stream; any other status-200 response is saved to the debug directory and
\* the attempt fails: while attempts remain the handshake starts again at the GET
\* with a session never used before, otherwise the period is given up. No call makes
\* more than MAX_ATTEMPTS attempts.
C24_ArchiveDetection ==
    /\ [](f_natt <= MAX_ATTEMPTS /\ f_saved \subseteq 0..(MAX_ATTEMPTS - 1))
    /\ [][(DownloadStep /\ Status200) =>
            IF f_r3'.magic \/ f_r3'.ctype \in {"application/zip", "application/octet-stream"}
            THEN /\ f_pc' = "parse"
                 /\ f_saved' = f_saved
                 /\ f_session' = f_session
            ELSE /\ f_saved' = f_saved \cup {f_attempt}
                 /\ f_attempt \notin f_saved
                 /\ IF f_natt < MAX_ATTEMPTS
                    THEN /\ f_pc' = "get"
                         /\ f_natt' = f_natt + 1
                         /\ f_session' \notin f_used
                    ELSE /\ f_pc' = "idle"
                         /\ f_result' = {}
                         /\ f_cache' = f_cache]_vars

\* C24, amended: a status-200 response to the download POST is accepted as the
\* archive if and only if its body starts with the zip magic bytes or its content
\* type names zip or octet-stream; for any other status-200 response a write to the
\* debug directory is attempted (afterwards the file of this attempt is there, or
\* the write failed and the directory is as it was) and the attempt fails either
\* way: while attempts remain the handshake starts again at the GET with a session
\* never used before, otherwise the period is given up. No call makes more than
\* MAX_ATTEMPTS attempts.
C24_ArchiveDetection_BestEffort ==
    /\ [](f_natt <= MAX_ATTEMPTS /\ f_saved \subseteq 0..(MAX_ATTEMPTS - 1))
    /\ [][(DownloadStep /\ Status200) =>
            IF f_r3'.magic \/ f_r3'.ctype \in {"application/zip", "application/octet-stream"}
            THEN /\ f_pc' = "parse"
                 /\ f_saved' = f_saved
                 /\ f_session' = f_session
            ELSE /\ f_saved' \in {f_saved, f_saved \cup {f_attempt}}
                 /\ f_attempt \notin f_saved
                 /\ IF f_natt < MAX_ATTEMPTS
                    THEN /\ f_pc' = "get"
                         /\ f_natt' = f_natt + 1
                         /\ f_session' \notin f_used
                    ELSE /\ f_pc' = "idle"
                         /\ f_result' = {}
                         /\ f_cache' = f_cache]_vars

\* a call whose first download response was an HTML page with status 200 that was
\* saved, whose second was one the write of which failed, and whose third attempt
\* is about to start
C24_Witness ==
    /\ f_pc = "get"
    /\ f_natt = MAX_ATTEMPTS
    /\ f_attempt = 2
    /\ f_saved = {0}
    /\ f_log # <<>>
    /\ f_log[Len(f_log)].status = "not_zip"
    /\ f_r3 = [magic |-> FALSE, ctype |-> "text/html"]
    /\ f_session = NewSession(f_calls, 2)

\* the step enters _download_with_webforms: the first attempt of a call, or a retry
AttemptStarts == f_pc' = "get" /\ (f_calls' # f_calls \/ f_nreq' # f_nreq)

\* C27: a call of fetch_quarter_data that is under way eventually returns, with
\* rows (read from a usable cache or parsed from a download) or with an empty frame;
\* it makes at most MAX_ATTEMPTS attempts and sends at most 3 * MAX_ATTEMPTS
\* requests; every attempt gets a session that was never used before, by this call
\* or by an earlier one, and every request of an attempt goes through that session
\* and carries only tokens received through it.
C27_FetchTerminates ==
    /\ (f_pc \in {"get", "post_date", "post_dl", "parse"}) ~> (f_pc = "idle")
    /\ [](/\ f_natt <= MAX_ATTEMPTS
          /\ f_nreq <= 3 * MAX_ATTEMPTS
          /\ (f_pc = "idle" /\ f_result # {}) => (f_usable \/ f_parsed)
          /\ (f_pc = "idle" /\ f_calls >= 1 /\ ~f_usable /\ ~f_parsed)
                => (f_result = {} /\ f_natt = MAX_ATTEMPTS)
          /\ (f_pc \in {"post_date", "post_dl", "parse"}) => f_log[1].session = f_session
          /\ \A i \in DOMAIN f_log :
                /\ f_log[i].session = f_log[1].session
                /\ f_log[i].session \in f_used
                /\ f_log[i].sent # NoTok => f_log[i].sent[1] = f_log[i].session
                /\ f_log[i].got # NoTok => f_log[i].got[1] = f_log[i].session)
    /\ [][AttemptStarts => (f_session' \notin f_used /\ f_session' \in f_used')]_vars

\* the second call gave its period up after three attempts that each failed at the
\* download POST: nine requests, and four sessions created in all
C27_Witness ==
    /\ f_pc = "idle"
    /\ f_calls = 2
    /\ f_natt = MAX_ATTEMPTS
    /\ f_nreq = 3 * MAX_ATTEMPTS
    /\ f_result = {}
    /\ Cardinality(f_used) = 4

\* C29: a cache file changes only when the parser of a downloaded archive of that
\* period found a record of a queried institution, and it then holds those records;
\* a call that ends without such a parse (failed handshake, non-archive response,
\* parse error, no queried institution in the archive) leaves every cache file as it
\* was, so a later call for the period goes to the network again.
C29_CacheWriteDiscipline ==
    /\ [][f_cache' # f_cache =>
            /\ f_pc = "parse"
            /\ f_result' # {}
            /\ f_result' \subseteq f_peers
            /\ f_cache' = [f_cache EXCEPT ![f_period] = RowsFile(f_result')]]_vars
    /\ [][(f_pc = "parse" /\ f_pc' = "idle" /\ f_result' = {}) => f_cache' = f_cache]_vars
    /\ []((f_pc = "idle" /\ f_calls >= 1 /\ ~f_usable /\ f_result = {})
            => f_cache[f_period].kind # "rows")
    /\ [][(f_calls' = f_calls + 1 /\ f_cache[f_period'].kind # "rows")
            => (f_pc' = "get" /\ f_nreq' = 0)]_vars

\* an earlier call ended after one attempt and left no cache file; the second call,
\* for a period without a usable file, went to the network, parsed a record of
\* institution 1 and wrote the period's cache file
C29_Witness ==
    /\ f_pc = "idle"
    /\ f_calls = 2
    /\ f_peers = {1}
    /\ ~f_usable
    /\ f_parsed
    /\ f_result = {1}
    /\ f_period = 1
    /\ f_cache[1] = RowsFile({1})
    /\ f_cache[2] = NoFile
    /\ Cardinality(f_used) = 2

(***************************************************************************)
(* Claims about the accounting of the requested institutions               *)
(***************************************************************************)
\* the institutions with a row in the dataset fetch_all_banks returned
ReturnedCerts == {k[1] : k \in DOMAIN b_df}

\* C30: after fetch_all_banks returns, every requested institution either has at
\* least one row in the returned dataset or is listed in the returned failed list,
\* and never both.
C30_RequestedAccounted ==
    b_pc = "returned" =>
        \A i \in 1..Len(certs_to_fetch) :
            (certs_to_fetch[i] \in ReturnedCerts) # (certs_to_fetch[i] \in Elems(b_failed))

(***************************************************************************)
(* heal_dataset on a frame with more periods than the healer looks at: one  *)
(* period more than the window.  The periods in the middle of the window    *)
(* hold sufficient data; the oldest period, the oldest period of the window *)
(* and the most recent period may hold zeros.                               *)
(***************************************************************************)
FramePeriods == 1..(HEAL_WINDOW + 1)

FrameVaried == {1, 2, HEAL_WINDOW + 1}

FrameKeys == HealCerts \X FramePeriods

HealFrameInit ==
    /\ phase = "heal"
    /\ AnalyticsIdleExcept("none")
    /\ ResolveIdle
    /\ YtdIdle
    /\ MergeIdle
    /\ h_df \in {df \in [FrameKeys -> HealRows] :
                    \A k \in FrameKeys : k[2] \notin FrameVaried => df[k]["RCFD1545"] = Some(500)}
    /\ h_df0 = h_df
    /\ h_status = <<>>
    /\ h_pc = "start"
    /\ h_dates = <<>>
    /\ h_frames = <<>>
    /\ h_skipped = {}
    /\ h_called = {}
    /\ h_failed = {}
    /\ f_peers = HealCerts
    /\ f_cache \in {[p \in FramePeriods |-> IF p = HEAL_WINDOW + 1 THEN file ELSE NoFile] :
                       file \in {NoFile, RowsFile({1})}}
    /\ f_pc = "idle"
    /\ f_period = 0
    /\ f_attempt = 0
    /\ f_session = <<>>
    /\ f_tok1 = NoTok
    /\ f_tok2 = NoTok
    /\ f_r3 = NoResponse
    /\ f_log = <<>>
    /\ f_nreq = 0
    /\ f_natt = 0
    /\ f_notok = 0
    /\ f_parsed = FALSE
    /\ f_usable = FALSE
    /\ f_result = {}
    /\ f_calls = 0
    /\ f_saved = {}
    /\ f_used = {}

SpecHealFrame == HealFrameInit /\ [][HealNext]_vars

(***************************************************************************)
(* Claims about the frame of the healing pass                              *)
(***************************************************************************)
\* the periods of the frame handed to heal_dataset that are more recent than p
MoreRecent(p) == {q \in {k[2] : k \in DOMAIN h_df0} : q > p}

\* p is not among the HEAL_WINDOW most recent periods
OlderPeriod(p) == Cardinality(MoreRecent(p)) >= 8

\* C28: heal_dataset assesses and fetches only the 8 most recent distinct periods of
\* the frame; the frame keeps its rows, and every value of an older period, of a
\* period the need assessment skipped, of a period whose fetch returned nothing, of
\* an (institution, period) absent from the recovered data, and of any field outside
\* the healer's target fields is the same after the call as before it.
C28_HealFrame ==
    /\ \A p \in h_called \cup h_skipped : ~OlderPeriod(p)
    /\ h_pc = "done" =>
          /\ DOMAIN h_df = DOMAIN h_df0
          /\ \A k \in DOMAIN h_df0 : \A c \in DOMAIN h_df0[k] :
                (\/ OlderPeriod(k[2])
                 \/ k[2] \in h_skipped
                 \/ k[2] \in h_failed
                 \/ k \notin DOMAIN Concat(h_frames)
                 \/ c \notin target_fields) => h_df[k][c] = h_df0[k][c]

\* nine periods, zeros everywhere they can be: the most recent period was healed for
\* institution 1 only, the fetch of the oldest period of the window failed, the six
\* periods between them were skipped, and the period before the window still holds
\* its zeros
C28_Witness ==
    /\ h_pc = "done"
    /\ DOMAIN h_df0 = FrameKeys
    /\ \A k \in HealCerts \X FrameVaried : h_df0[k]["RCFD1545"] = Some(0)
    /\ h_called = {2, HEAL_WINDOW + 1}
    /\ h_failed = {2}
    /\ h_skipped = 3..HEAL_WINDOW
    /\ h_df[<<1, HEAL_WINDOW + 1>>]["RCFD1545"] = Some(301)
    /\ h_df[<<2, HEAL_WINDOW + 1>>]["RCFD1545"] = Some(0)
    /\ h_df[<<1, 1>>]["RCFD1545"] = Some(0)
    /\ h_df[<<1, 2>>]["RCFD1545"] = Some(0)

(***************************************************************************)
(* The table through the pipeline of run(): fetch_all_banks (main request, *)
(* LNCI join, healing merge), create_derived_metrics (field resolution),   *)
(* calculate_ttm_metrics and _create_peer_composite.  The table is a       *)
(* sequence of rows; a row maps "cert" and "period" to numbers and every   *)
(* other column to a cell.                                                 *)
(***************************************************************************)
KeyPeriods == 2

\* two institutions of the Core group
KeyCerts == <<34221, 33124>>

\* the row the FDIC API returns for an institution and a period
SourceRow(c, p) ==
    [col \in {"cert", "period", "RCFD1545", "RCON1545", "LNLS", "NTLNLS_Q", "PD", "bal", "val"} |->
        IF col = "cert" THEN c
        ELSE IF col = "period" THEN p
        ELSE IF col = "RCFD1545" THEN Some(0)
        ELSE IF col = "val" THEN Flt(PeerVal(c, p))
        ELSE Some(100 + p)]

\* pd.DataFrame(data) with df['CERT'] = cert: one row per period of the response
ResponseFrame(c, ps) ==
    LET o == PeriodsAsc(ps) IN [i \in 1..Len(o) |-> SourceRow(c, o[i])]

\* the rows of lnci_df for one institution
LnciResponse(c, ps, value) ==
    LET o == PeriodsAsc(ps) IN [i \in 1..Len(o) |-> [cert |-> c, period |-> o[i], LNCI |-> value]]

\* a join on CERT alone
MergeLeft_OnCert(left, right) ==
    LET matches(i) == SelectSeq([j \in 1..Len(right) |-> j],
                                LAMBDA j : right[j].cert = left[i].cert)
        rows(i) == IF matches(i) = <<>>
                   THEN <<left[i] @@ [c \in {"LNCI"} |-> NaN]>>
                   ELSE [m \in 1..Len(matches(i)) |->
                           left[i] @@ [c \in {"LNCI"} |-> right[matches(i)[m]].LNCI]]
    IN Flatten([i \in 1..Len(left) |-> rows(i)])

\* pd.merge(combined_df, lnci_df, on=['CERT', 'REPDTE'], how='left'): every left row
\* once per matching right row, or once with a NaN when there is none
MergeLeft(left, right) ==
    LET matches(i) == SelectSeq([j \in 1..Len(right) |-> j],
                                LAMBDA j : /\ right[j].cert = left[i].cert
                                           /\ right[j].period = left[i].period)
        rows(i) == IF matches(i) = <<>>
                   THEN <<left[i] @@ [c \in {"LNCI"} |-> NaN]>>
                   ELSE [m \in 1..Len(matches(i)) |->
                           left[i] @@ [c \in {"LNCI"} |-> right[matches(i)[m]].LNCI]]
    IN Flatten([i \in 1..Len(left) |-> rows(i)])

\* heal_dataset on the table: set_index, the merge of the target field the model
\* follows, reset_index; patch holds the keys of the recovered rows
HealRowsOf(df, patch) ==
    [i \in 1..Len(df) |->
        [df[i] EXCEPT !["RCFD1545"] =
            MergeCell(@, IF <<df[i].cert, df[i].period>> \in patch
                         THEN RecoveredRow(df[i].cert, df[i].period).RCFD1545 ELSE NaN)]]

RECURSIVE TtmGroups(_, _)
\* for cert, group in df.groupby('CERT'): all_banks_data.append(bank_df)
TtmGroups(df, certs) ==
    IF certs = {} THEN <<>>
    ELSE LET c == CHOOSE x \in certs : \A y \in certs : x <= y
             order == SortByPeriod(df, {j \in 1..Len(df) : df[j].cert = c})
             bank == TtmBank(df, order)
         IN <<[k \in 1..Len(order) |-> bank[k] @@ df[order[k]]]>> \o TtmGroups(df, certs \ {c})

\* calculate_ttm_metrics on the table, every column of bank_df kept
TtmTable(df) == ConcatFrames(TtmGroups(df, {df[i].cert : i \in 1..Len(df)}))

RECURSIVE SortValues(_)
\* combined_df.sort_values(['CERT', 'REPDTE']): the row with the least key first,
\* and among rows of one key the one that came first
SortValues(df) ==
    IF df = <<>> THEN <<>>
    ELSE LET m == CHOOSE i \in 1..Len(df) : \A j \in 1..Len(df) :
                     \/ df[i].cert < df[j].cert
                     \/ (df[i].cert = df[j].cert /\ df[i].period < df[j].period)
                     \/ (df[i].cert = df[j].cert /\ df[i].period = df[j].period /\ i <= j)
         IN <<df[m]>> \o SortValues(SubSeq(df, 1, m - 1) \o SubSeq(df, m + 1, Len(df)))

RECURSIVE UniqueCerts(_)
\* fdic_df['CERT'].unique().tolist(): the certs in the order they first appear
UniqueCerts(df) ==
    IF df = <<>> THEN <<>>
    ELSE <<df[1].cert>> \o UniqueCerts(SelectSeq(Tail(df), LAMBDA r : r.cert # df[1].cert))

\* get_bank_locations: one row per cert; found[c] says whether the institutions
\* request of cert c answered with a record, otherwise the state stays "N/A"
LocationsFrame(certs, found) ==
    [i \in 1..Len(certs) |->
        [cert |-> certs[i], HQ_STATE |-> IF found[certs[i]] THEN "NY" ELSE "N/A"]]

\* pd.merge(fdic_df, locations_df, on='CERT', how='left')
MergeLocations(left, right) ==
    LET matches(i) == SelectSeq([j \in 1..Len(right) |-> j],
                                LAMBDA j : right[j].cert = left[i].cert)
        rows(i) == IF matches(i) = <<>>
                   THEN <<left[i] @@ [c \in {"HQ_STATE"} |-> "NaN"]>>
                   ELSE [m \in 1..Len(matches(i)) |->
                           left[i] @@ [c \in {"HQ_STATE"} |-> right[matches(i)[m]].HQ_STATE]]
    IN Flatten([i \in 1..Len(left) |-> rows(i)])

KeysInit ==
    /\ phase = "keys"
    /\ IngestIdle
    /\ AnalyticsIdleExcept("keys")
    /\ k_tab = <<>>
    /\ k_pc = "start"

others_k == <<phase, rvars, yvars, mvars, fvars, hvars, tvars, dvars, bvars, pvars, gvars,
              svars, vvars>>

\* fetch_all_banks, steps 1 and 2: a response per institution (no rows when the
\* request failed), concatenated in the order of certs_to_fetch
KeysFetch ==
    /\ phase = "keys"
    /\ k_pc = "start"
    /\ \E ps \in [1..Len(KeyCerts) -> SUBSET (1..KeyPeriods)] :
          LET tab == Flatten([i \in 1..Len(KeyCerts) |-> ResponseFrame(KeyCerts[i], ps[i])])
          IN /\ k_tab' = tab
             /\ k_pc' = IF tab = <<>> THEN "empty" ELSE "fetched"
    /\ UNCHANGED others_k

\* fetch_all_banks, step 3: the LNCI responses, one per institution, joined on
\* (CERT, REPDTE); without any LNCI row the column is all NaN
KeysJoin ==
    /\ phase = "keys"
    /\ k_pc = "fetched"
    /\ \E ps \in [1..Len(KeyCerts) -> SUBSET (1..KeyPeriods)] : \E value \in {NaN, Some(40)} :
          LET lnci == Flatten([i \in 1..Len(KeyCerts) |-> LnciResponse(KeyCerts[i], ps[i], value)])
          IN k_tab' = IF lnci = <<>>
                      THEN [i \in 1..Len(k_tab) |-> k_tab[i] @@ [c \in {"LNCI"} |-> NaN]]
                      ELSE MergeLeft(k_tab, lnci)
    /\ k_pc' = "joined"
    /\ UNCHANGED others_k

\* fetch_all_banks, the healer: the recovered frames hold one row per institution
\* found in the archive of a period
KeysHeal ==
    /\ phase = "keys"
    /\ k_pc = "joined"
    /\ \E patch \in SUBSET (Range(KeyCerts) \X (1..KeyPeriods)) :
          k_tab' = HealRowsOf(k_tab, patch)
    /\ k_pc' = "healed"
    /\ UNCHANGED others_k

\* fetch_all_banks, step 4 and the return: the missing fields of the fetch list as
\* NaN columns, to_numeric (every cell of the table is a number already), and the
\* rows sorted by (CERT, REPDTE)
KeysReturn ==
    /\ phase = "keys"
    /\ k_pc = "healed"
    /\ k_tab' = SortValues(AddMissingFields(k_tab))
    /\ k_pc' = "returned"
    /\ UNCHANGED others_k

\* run: get_bank_locations for the certs of the table and the left merge on CERT;
\* an answer that is not the expected JSON raises out of run
KeysLocate ==
    /\ phase = "keys"
    /\ k_pc = "returned"
    /\ \/ /\ \E found \in [Range(KeyCerts) -> BOOLEAN] :
                k_tab' = MergeLocations(k_tab, LocationsFrame(UniqueCerts(k_tab), found))
          /\ k_pc' = "located"
       \/ /\ k_pc' = "raised"
          /\ UNCHANGED k_tab
    /\ UNCHANGED others_k

\* create_derived_metrics, step [A]
KeysResolve ==
    /\ phase = "keys"
    /\ k_pc = "located"
    /\ k_tab' = ResolutionFrame(k_tab, FDIC_FALLBACK_MAP, 1)
    /\ k_pc' = "resolved"
    /\ UNCHANGED others_k

\* calculate_ttm_metrics
KeysTtm ==
    /\ phase = "keys"
    /\ k_pc = "resolved"
    /\ k_tab' = TtmTable(k_tab)
    /\ k_pc' = "ttm"
    /\ UNCHANGED others_k

\* _create_peer_composite
KeysComposite ==
    /\ phase = "keys"
    /\ k_pc = "ttm"
    /\ k_tab' = create_peer_composite(k_tab)
    /\ k_pc' = "composited"
    /\ UNCHANGED others_k

KeysNext ==
    \/ KeysFetch
    \/ KeysJoin
    \/ KeysHeal
    \/ KeysReturn
    \/ KeysLocate
    \/ KeysResolve
    \/ KeysTtm
    \/ KeysComposite

SpecKeys == KeysInit /\ [][KeysNext]_vars

(***************************************************************************)
(* Claims about the uniqueness of the keys                                 *)
(***************************************************************************)
KeysUnique(df) ==
    \A i, j \in 1..Len(df) :
        (df[i].cert = df[j].cert /\ df[i].period = df[j].period) => i = j

\* C25: with at most one row per (institution, period) in every source response,
\* the table has at most one row per (institution, period) after the LNCI join, the
\* healing merge, the field resolution, the TTM derivation and the composite
\* synthesis, the composite rows included.
C25_KeysUnique ==
    /\ KeysUnique(k_tab)
    /\ k_pc \in {"joined", "healed", "returned", "located", "raised", "resolved", "ttm"} =>
          {<<k_tab[i].cert, k_tab[i].period>> : i \in 1..Len(k_tab)}
             \subseteq Range(KeyCerts) \X (1..KeyPeriods)

\* both institutions answered with both periods, LNCI was joined for each row, the
\* rows were sorted, the location of each institution was merged in, and the table
\* ends with the four real rows and two rows of each of the three composites
C25_Witness ==
    /\ k_pc = "composited"
    /\ Len(k_tab) = 10
    /\ \A i \in 1..4 : k_tab[i]["LNCI"] = Some(40) /\ k_tab[i]["HQ_STATE"] = "NY"
    /\ \A i \in 1..4 : "ASSET" \in DOMAIN k_tab[i]
    /\ k_tab[1]["RCFD1545"] = Some(300 + 33124)
    /\ {k_tab[i].cert : i \in 5..10} = {90001, 90002, 90003}

Init == HealInit
Next == HealNext
Spec == Init /\ [][Next]_vars
====
